---- MODULE Spec2Model ----
(***************************************************************************)
(* Model of the hashtag scanner, unescaper, synthesizer and RegExp-like    *)
(* matcher of src/hashtag.ts (current dialect, lines 1-699).               *)
(*                                                                         *)
(* A JavaScript string is a sequence of UTF-16 code units (integers).      *)
(* Source indices are 0-based; charCodeAt and slice translate them.        *)
(***************************************************************************)
EXTENDS Integers, Sequences, FiniteSets, TLC

VARIABLES
    input,      \* the string handed to the scanning operations
    text,       \* the logical text handed to createHashtag
    opts,       \* options of the hashtagPattern instance: type, global, sticky, capture
    lastIndex,  \* state.lastIndex of the hashtagPattern instance
    op,         \* name of the last operation performed
    arg,        \* argument of the last operation (fromIndex, previous lastIndex)
    ret,        \* value returned by the last operation
    yielded     \* values returned by the successive exec calls of the current run

vars == <<input, text, opts, lastIndex, op, arg, ret, yielded>>

----------------------------------------------------------------------------
(* Bounds of the model *)

MaxLen == 4
MaxTextLen == 3
MaxTokens == 3
MaxRun == 3
MaxWrapLen == 4
MaxIterLen == 4

(* Code units named by the source *)
Hash == 35
Backslash == 92
LtSign == 60
GtSign == 62
SP == 32
HT == 9
LF == 10
CR == 13

(* JavaScript values *)
null == [isNull |-> TRUE]
undefined == -1
NaN == -2

(* Sample code units: '#', '\', '<', '>', ' ', LF, '.', U+3002, 'a',       *)
(* a high surrogate (U+D83D) and a low surrogate (U+DE00).                 *)
ScanAlphabet == {35, 133, 92, 60, 62, 32, 10, 46, 12290, 97, 55357, 56832}
TextAlphabet == {35, 133, 92, 60, 62, 32, 10, 46, 12290, 97, 55357, 56832}

(* Fragments the inputs of the pattern are put together from: '#a',        *)
(* '#<a>', a backslash and an unterminated '#<'.                           *)
PatTokens == {<<35, 97>>, <<35, 60, 97, 62>>, <<92>>, <<35, 60>>}

Strings(A, n) == UNION {[1..k -> A] : k \in 0..n}

RECURSIVE Flatten(_)
Flatten(ts) == IF ts = <<>> THEN <<>> ELSE Head(ts) \o Flatten(Tail(ts))

PatInputs == {Flatten(ts) : ts \in Strings(PatTokens, MaxTokens)}

----------------------------------------------------------------------------
(* String primitives *)

charCodeAt(s, i) == IF i >= 0 /\ i < Len(s) THEN s[i + 1] ELSE NaN

slice(s, a, b) == SubSeq(s, a + 1, b)

indexOf(s, c, from) ==
    LET hits == {k \in from..(Len(s) - 1) : s[k + 1] = c}
    IN  IF hits = {} THEN -1
        ELSE CHOOSE k \in hits : \A j \in hits : k <= j

----------------------------------------------------------------------------
(* Character classifier *)

punctuationTrailingCodes ==
    {46, 44, 33, 63, 59, 58, 183, 2404, 2405, 1548, 1563, 1567, 1748,
     1417, 1371, 1372, 1374, 4961, 4962, 4963, 4964, 4965, 4347}

punctuationNoneCodes ==
    {3853, 3854, 12290, 12289, 65292, 65311, 65281, 65307, 65306, 12539, 65294}

(* punctuationStrategyCode with every entry given the trailing strategy. *)
punctuationStrategyCode_allTrailing(code) ==
    IF code \in punctuationTrailingCodes \cup punctuationNoneCodes THEN 0
    ELSE undefined

punctuationStrategyCode(code) ==
    IF code \in punctuationTrailingCodes THEN 0
    ELSE IF code \in punctuationNoneCodes THEN 1
    ELSE undefined

isStrongTerminator(code) ==
    code # NaN /\ (code <= 32 \/ (code >= 127 /\ code <= 159))

isHighSurrogate(code) == code >= 55296 /\ code <= 56319

isLowSurrogate(code) == code >= 56320 /\ code <= 57343

isSurrogatePair(s, pos) ==
    IF pos + 1 >= Len(s) THEN FALSE
    ELSE IF isHighSurrogate(charCodeAt(s, pos))
         THEN isLowSurrogate(charCodeAt(s, pos + 1))
         ELSE FALSE

hasLoneSurrogate(s, pos) ==
    LET code == charCodeAt(s, pos)
    IN  IF isHighSurrogate(code) THEN ~isSurrogatePair(s, pos)
        ELSE IF isLowSurrogate(code) THEN TRUE
        ELSE FALSE

RECURSIVE anyLoneFrom(_, _)
anyLoneFrom(s, i) ==
    IF i >= Len(s) THEN FALSE
    ELSE IF hasLoneSurrogate(s, i) THEN TRUE
    ELSE anyLoneFrom(s, i + (IF isSurrogatePair(s, i) THEN 2 ELSE 1))

hasAnyLoneSurrogate(s) == anyLoneFrom(s, 0)

isLineBreakChar(code) == code = 10 \/ code = 13

isHorizontalWhitespace(code) == code = 32 \/ code = 9

----------------------------------------------------------------------------
(* Unescaper *)

RECURSIVE unescapeFrom(_, _)
unescapeFrom(s, i) ==
    IF i >= Len(s) THEN <<>>
    ELSE IF s[i + 1] = Backslash
         THEN IF i + 1 < Len(s)
              THEN <<s[i + 2]>> \o unescapeFrom(s, i + 2)
              ELSE unescapeFrom(s, i + 1)
         ELSE <<s[i + 1]>> \o unescapeFrom(s, i + 1)

(* unescapeHashtagText that keeps a final backslash. *)
RECURSIVE unescapeFrom_keepTrailing(_, _)
unescapeFrom_keepTrailing(s, i) ==
    IF i >= Len(s) THEN <<>>
    ELSE IF s[i + 1] = Backslash /\ i + 1 < Len(s)
         THEN <<s[i + 2]>> \o unescapeFrom_keepTrailing(s, i + 2)
         ELSE <<s[i + 1]>> \o unescapeFrom_keepTrailing(s, i + 1)

unescapeHashtagText_keepTrailing(s) == unescapeFrom_keepTrailing(s, 0)

unescapeHashtagText(s) == unescapeFrom(s, 0)

RECURSIVE skipHorizontalWhitespace(_, _)
skipHorizontalWhitespace(s, i) ==
    IF i < Len(s) /\ isHorizontalWhitespace(charCodeAt(s, i))
    THEN skipHorizontalWhitespace(s, i + 1)
    ELSE i

RECURSIVE normalizeFrom(_, _)
normalizeFrom(s, i) ==
    IF i >= Len(s) THEN <<>>
    ELSE LET code == charCodeAt(s, i)
         IN  IF code = 13
             THEN LET j == IF i + 1 < Len(s) /\ charCodeAt(s, i + 1) = 10
                           THEN i + 2 ELSE i + 1
                  IN  <<SP>> \o normalizeFrom(s, skipHorizontalWhitespace(s, j))
             ELSE IF code = 10
             THEN <<SP>> \o normalizeFrom(s, skipHorizontalWhitespace(s, i + 1))
             ELSE <<s[i + 1]>> \o normalizeFrom(s, i + 1)

(* normalizeWrappedText that forgets to push the space for a line break. *)
RECURSIVE normalizeFrom_dropBreak(_, _)
normalizeFrom_dropBreak(s, i) ==
    IF i >= Len(s) THEN <<>>
    ELSE LET code == charCodeAt(s, i)
         IN  IF code = 13
             THEN LET j == IF i + 1 < Len(s) /\ charCodeAt(s, i + 1) = 10
                           THEN i + 2 ELSE i + 1
                  IN  normalizeFrom_dropBreak(s, skipHorizontalWhitespace(s, j))
             ELSE IF code = 10
             THEN normalizeFrom_dropBreak(s, skipHorizontalWhitespace(s, i + 1))
             ELSE <<s[i + 1]>> \o normalizeFrom_dropBreak(s, i + 1)

normalizeWrappedText_dropBreak(s) == normalizeFrom_dropBreak(s, 0)

(* normalizeWrappedText that does not take CR LF as one line break. *)
RECURSIVE normalizeFrom_crlfTwice(_, _)
normalizeFrom_crlfTwice(s, i) ==
    IF i >= Len(s) THEN <<>>
    ELSE LET code == charCodeAt(s, i)
         IN  IF code = 13 \/ code = 10
             THEN <<SP>> \o normalizeFrom_crlfTwice(s, skipHorizontalWhitespace(s, i + 1))
             ELSE <<s[i + 1]>> \o normalizeFrom_crlfTwice(s, i + 1)

normalizeWrappedText_crlfTwice(s) == normalizeFrom_crlfTwice(s, 0)

normalizeWrappedText(s) == normalizeFrom(s, 0)

----------------------------------------------------------------------------
(* Wrapped-content extractor *)

(* wrappedStep in which every '>' closes, escaped or not. *)
wrappedStep_closesEscaped(s, startIndex, pos, slashParity) ==
    IF hasLoneSurrogate(s, pos)
    THEN [ret |-> TRUE, value |-> null, pos |-> pos, slashParity |-> slashParity]
    ELSE LET code == charCodeAt(s, pos)
         IN  IF code = Backslash
             THEN [ret |-> FALSE, value |-> null, pos |-> pos + 1,
                   slashParity |-> 1 - slashParity]
             ELSE IF code = GtSign
             THEN IF TRUE
                  THEN IF pos = startIndex
                       THEN [ret |-> TRUE, value |-> null, pos |-> pos,
                             slashParity |-> slashParity]
                       ELSE [ret |-> TRUE,
                             value |-> [end |-> pos + 1,
                                        rawText |-> slice(s, startIndex, pos)],
                             pos |-> pos, slashParity |-> slashParity]
                  ELSE [ret |-> FALSE, value |-> null, pos |-> pos + 1,
                        slashParity |-> 0]
             ELSE [ret |-> FALSE, value |-> null,
                   pos |-> pos + (IF isSurrogatePair(s, pos) THEN 2 ELSE 1),
                   slashParity |-> 0]

(* One iteration of the while loop of extractWrappedTag. *)
wrappedStep(s, startIndex, pos, slashParity) ==
    IF hasLoneSurrogate(s, pos)
    THEN [ret |-> TRUE, value |-> null, pos |-> pos, slashParity |-> slashParity]
    ELSE LET code == charCodeAt(s, pos)
         IN  IF code = Backslash
             THEN [ret |-> FALSE, value |-> null, pos |-> pos + 1,
                   slashParity |-> 1 - slashParity]
             ELSE IF code = GtSign
             THEN IF slashParity = 0
                  THEN IF pos = startIndex
                       THEN [ret |-> TRUE, value |-> null, pos |-> pos,
                             slashParity |-> slashParity]
                       ELSE [ret |-> TRUE,
                             value |-> [end |-> pos + 1,
                                        rawText |-> slice(s, startIndex, pos)],
                             pos |-> pos, slashParity |-> slashParity]
                  ELSE [ret |-> FALSE, value |-> null, pos |-> pos + 1,
                        slashParity |-> 0]
             ELSE [ret |-> FALSE, value |-> null,
                   pos |-> pos + (IF isSurrogatePair(s, pos) THEN 2 ELSE 1),
                   slashParity |-> 0]

RECURSIVE wrappedLoop(_, _, _, _)
wrappedLoop(s, startIndex, pos, slashParity) ==
    IF pos >= Len(s) THEN null
    ELSE LET after(st) == IF st.ret THEN st.value
                           ELSE wrappedLoop(s, startIndex, st.pos, st.slashParity)
         IN  after(wrappedStep(s, startIndex, pos, slashParity))

extractWrappedTag(s, hashIndex) ==
    IF hashIndex + 1 >= Len(s) \/ charCodeAt(s, hashIndex + 1) # LtSign
    THEN null
    ELSE wrappedLoop(s, hashIndex + 2, hashIndex + 2, 0)

----------------------------------------------------------------------------
(* Unwrapped-content extractor *)

(* unwrappedStep without the end-of-input test of the punctuation         *)
(* lookahead: a final punctuation character is included.                  *)
unwrappedStep_noEoi(s, pos) ==
    LET n == Len(s)
        code == charCodeAt(s, pos)
        next == charCodeAt(s, pos + 1)
        punctCode == punctuationStrategyCode(code)
    IN  IF hasLoneSurrogate(s, pos) THEN [brk |-> TRUE, pos |-> pos]
        ELSE IF isLineBreakChar(code) THEN [brk |-> TRUE, pos |-> pos]
        ELSE IF code = Backslash
        THEN IF pos + 1 < n
             THEN IF isLineBreakChar(next) \/ hasLoneSurrogate(s, pos + 1)
                  THEN [brk |-> TRUE, pos |-> pos]
                  ELSE [brk |-> FALSE,
                        pos |-> pos + (IF isSurrogatePair(s, pos + 1) THEN 3 ELSE 2)]
             ELSE [brk |-> TRUE, pos |-> pos + 1]
        ELSE IF isStrongTerminator(code) \/ code = Hash
        THEN [brk |-> TRUE, pos |-> pos]
        ELSE IF punctCode # undefined
        THEN IF punctCode = 1 THEN [brk |-> TRUE, pos |-> pos]
             ELSE IF pos + 1 < n /\ hasLoneSurrogate(s, pos + 1)
             THEN [brk |-> TRUE, pos |-> pos]
             ELSE IF pos + 1 < n
                     /\ (isStrongTerminator(next)
                         \/ punctuationStrategyCode(next) # undefined)
             THEN [brk |-> TRUE, pos |-> pos]
             ELSE [brk |-> FALSE, pos |-> pos + 1]
        ELSE [brk |-> FALSE,
              pos |-> pos + (IF isSurrogatePair(s, pos) THEN 2 ELSE 1)]

(* unwrappedStep in which a '#' does not end the hashtag. *)
unwrappedStep_hashContinues(s, pos) ==
    LET n == Len(s)
        code == charCodeAt(s, pos)
        next == charCodeAt(s, pos + 1)
        punctCode == punctuationStrategyCode(code)
    IN  IF hasLoneSurrogate(s, pos) THEN [brk |-> TRUE, pos |-> pos]
        ELSE IF isLineBreakChar(code) THEN [brk |-> TRUE, pos |-> pos]
        ELSE IF code = Backslash
        THEN IF pos + 1 < n
             THEN IF isLineBreakChar(next) \/ hasLoneSurrogate(s, pos + 1)
                  THEN [brk |-> TRUE, pos |-> pos]
                  ELSE [brk |-> FALSE,
                        pos |-> pos + (IF isSurrogatePair(s, pos + 1) THEN 3 ELSE 2)]
             ELSE [brk |-> TRUE, pos |-> pos + 1]
        ELSE IF isStrongTerminator(code)
        THEN [brk |-> TRUE, pos |-> pos]
        ELSE IF punctCode # undefined
        THEN IF punctCode = 1 THEN [brk |-> TRUE, pos |-> pos]
             ELSE IF pos + 1 >= n THEN [brk |-> TRUE, pos |-> pos]
             ELSE IF hasLoneSurrogate(s, pos + 1) THEN [brk |-> TRUE, pos |-> pos]
             ELSE IF isStrongTerminator(next)
                     \/ punctuationStrategyCode(next) # undefined
             THEN [brk |-> TRUE, pos |-> pos]
             ELSE [brk |-> FALSE, pos |-> pos + 1]
        ELSE [brk |-> FALSE,
              pos |-> pos + (IF isSurrogatePair(s, pos) THEN 2 ELSE 1)]

(* unwrappedStep that lets a backslash escape a line break. *)
unwrappedStep_escapesBreak(s, pos) ==
    LET n == Len(s)
        code == charCodeAt(s, pos)
        next == charCodeAt(s, pos + 1)
        punctCode == punctuationStrategyCode(code)
    IN  IF hasLoneSurrogate(s, pos) THEN [brk |-> TRUE, pos |-> pos]
        ELSE IF isLineBreakChar(code) THEN [brk |-> TRUE, pos |-> pos]
        ELSE IF code = Backslash
        THEN IF pos + 1 < n
             THEN IF hasLoneSurrogate(s, pos + 1)
                  THEN [brk |-> TRUE, pos |-> pos]
                  ELSE [brk |-> FALSE,
                        pos |-> pos + (IF isSurrogatePair(s, pos + 1) THEN 3 ELSE 2)]
             ELSE [brk |-> TRUE, pos |-> pos + 1]
        ELSE IF isStrongTerminator(code) \/ code = Hash
        THEN [brk |-> TRUE, pos |-> pos]
        ELSE IF punctCode # undefined
        THEN IF punctCode = 1 THEN [brk |-> TRUE, pos |-> pos]
             ELSE IF pos + 1 >= n THEN [brk |-> TRUE, pos |-> pos]
             ELSE IF hasLoneSurrogate(s, pos + 1) THEN [brk |-> TRUE, pos |-> pos]
             ELSE IF isStrongTerminator(next)
                     \/ punctuationStrategyCode(next) # undefined
             THEN [brk |-> TRUE, pos |-> pos]
             ELSE [brk |-> FALSE, pos |-> pos + 1]
        ELSE [brk |-> FALSE,
              pos |-> pos + (IF isSurrogatePair(s, pos) THEN 2 ELSE 1)]

(* unwrappedStep that stops in front of a backslash at the end of input. *)
unwrappedStep_finalBackslashOut(s, pos) ==
    LET n == Len(s)
        code == charCodeAt(s, pos)
        next == charCodeAt(s, pos + 1)
        punctCode == punctuationStrategyCode(code)
    IN  IF hasLoneSurrogate(s, pos) THEN [brk |-> TRUE, pos |-> pos]
        ELSE IF isLineBreakChar(code) THEN [brk |-> TRUE, pos |-> pos]
        ELSE IF code = Backslash
        THEN IF pos + 1 < n
             THEN IF isLineBreakChar(next) \/ hasLoneSurrogate(s, pos + 1)
                  THEN [brk |-> TRUE, pos |-> pos]
                  ELSE [brk |-> FALSE,
                        pos |-> pos + (IF isSurrogatePair(s, pos + 1) THEN 3 ELSE 2)]
             ELSE [brk |-> TRUE, pos |-> pos]
        ELSE IF isStrongTerminator(code) \/ code = Hash
        THEN [brk |-> TRUE, pos |-> pos]
        ELSE IF punctCode # undefined
        THEN IF punctCode = 1 THEN [brk |-> TRUE, pos |-> pos]
             ELSE IF pos + 1 >= n THEN [brk |-> TRUE, pos |-> pos]
             ELSE IF hasLoneSurrogate(s, pos + 1) THEN [brk |-> TRUE, pos |-> pos]
             ELSE IF isStrongTerminator(next)
                     \/ punctuationStrategyCode(next) # undefined
             THEN [brk |-> TRUE, pos |-> pos]
             ELSE [brk |-> FALSE, pos |-> pos + 1]
        ELSE [brk |-> FALSE,
              pos |-> pos + (IF isSurrogatePair(s, pos) THEN 2 ELSE 1)]

(* One iteration of the while loop of extractUnwrappedTag:                *)
(* brk means the loop is left, pos is the position after the iteration.   *)
unwrappedStep(s, pos) ==
    LET n == Len(s)
        code == charCodeAt(s, pos)
        next == charCodeAt(s, pos + 1)
        punctCode == punctuationStrategyCode(code)
    IN  IF hasLoneSurrogate(s, pos) THEN [brk |-> TRUE, pos |-> pos]
        ELSE IF isLineBreakChar(code) THEN [brk |-> TRUE, pos |-> pos]
        ELSE IF code = Backslash
        THEN IF pos + 1 < n
             THEN IF isLineBreakChar(next) \/ hasLoneSurrogate(s, pos + 1)
                  THEN [brk |-> TRUE, pos |-> pos]
                  ELSE [brk |-> FALSE,
                        pos |-> pos + (IF isSurrogatePair(s, pos + 1) THEN 3 ELSE 2)]
             ELSE [brk |-> TRUE, pos |-> pos + 1]
        ELSE IF isStrongTerminator(code) \/ code = Hash
        THEN [brk |-> TRUE, pos |-> pos]
        ELSE IF punctCode # undefined
        THEN IF punctCode = 1 THEN [brk |-> TRUE, pos |-> pos]
             ELSE IF pos + 1 >= n THEN [brk |-> TRUE, pos |-> pos]
             ELSE IF hasLoneSurrogate(s, pos + 1) THEN [brk |-> TRUE, pos |-> pos]
             ELSE IF isStrongTerminator(next)
                     \/ punctuationStrategyCode(next) # undefined
             THEN [brk |-> TRUE, pos |-> pos]
             ELSE [brk |-> FALSE, pos |-> pos + 1]
        ELSE [brk |-> FALSE,
              pos |-> pos + (IF isSurrogatePair(s, pos) THEN 2 ELSE 1)]

RECURSIVE unwrappedLoop(_, _)
unwrappedLoop(s, pos) ==
    IF pos >= Len(s) THEN pos
    ELSE LET after(st) == IF st.brk THEN st.pos ELSE unwrappedLoop(s, st.pos)
         IN  after(unwrappedStep(s, pos))

extractUnwrappedTag(s, start) ==
    LET result(pos) == IF pos > start
                       THEN [end |-> pos, rawText |-> slice(s, start, pos)]
                       ELSE null
    IN  result(unwrappedLoop(s, start))

----------------------------------------------------------------------------
(* Escape-parity tracker *)

RECURSIVE slashRun(_, _)
slashRun(s, j) ==
    IF j >= 0 /\ charCodeAt(s, j) = Backslash THEN 1 + slashRun(s, j - 1) ELSE 0

(* isUnescapedHash that looks at the one code unit before the '#' only. *)
isUnescapedHash_oneBack(s, hashIndex) ==
    hashIndex = 0 \/ charCodeAt(s, hashIndex - 1) # Backslash

isUnescapedHash(s, hashIndex) == slashRun(s, hashIndex - 1) % 2 = 0

----------------------------------------------------------------------------
(* Hashtag scanner *)

(* scanStep searching for '#' from i + 1 instead of i. *)
scanStep_searchAfter(s, i) ==
    LET n == Len(s)
        wrappedItem(hashIndex, parsed) ==
            IF parsed # null
            THEN [done |-> FALSE,
                  item |-> [type |-> "wrapped", start |-> hashIndex,
                            end |-> parsed.end, rawText |-> parsed.rawText],
                  i |-> parsed.end]
            ELSE [done |-> FALSE, item |-> null, i |-> hashIndex + 2]
        unwrappedItem(hashIndex, parsed) ==
            IF parsed # null /\ Len(unescapeHashtagText(parsed.rawText)) > 0
               /\ ~hasAnyLoneSurrogate(unescapeHashtagText(parsed.rawText))
            THEN [done |-> FALSE,
                  item |-> [type |-> "unwrapped", start |-> hashIndex,
                            end |-> parsed.end, rawText |-> parsed.rawText],
                  i |-> parsed.end]
            ELSE [done |-> FALSE, item |-> null, i |-> hashIndex + 1]
        atHash(hashIndex) ==
            IF hashIndex < 0 THEN [done |-> TRUE, item |-> null, i |-> i]
            ELSE IF hasLoneSurrogate(s, hashIndex)
            THEN [done |-> FALSE, item |-> null, i |-> hashIndex + 1]
            ELSE IF ~isUnescapedHash(s, hashIndex)
            THEN [done |-> FALSE, item |-> null, i |-> hashIndex + 1]
            ELSE IF hashIndex + 1 < n /\ charCodeAt(s, hashIndex + 1) = LtSign
            THEN wrappedItem(hashIndex, extractWrappedTag(s, hashIndex))
            ELSE unwrappedItem(hashIndex, extractUnwrappedTag(s, hashIndex + 1))
    IN  atHash(indexOf(s, Hash, i + 1))

(* scanStep falling back to unwrapped parsing when wrapped extraction fails. *)
scanStep_fallback(s, i) ==
    LET n == Len(s)
        wrappedItem(hashIndex, parsed) ==
            IF parsed # null
            THEN [done |-> FALSE,
                  item |-> [type |-> "wrapped", start |-> hashIndex,
                            end |-> parsed.end, rawText |-> parsed.rawText],
                  i |-> parsed.end]
            ELSE [done |-> FALSE, item |-> null, i |-> hashIndex + 2]
        unwrappedItem(hashIndex, parsed) ==
            IF parsed # null /\ Len(unescapeHashtagText(parsed.rawText)) > 0
               /\ ~hasAnyLoneSurrogate(unescapeHashtagText(parsed.rawText))
            THEN [done |-> FALSE,
                  item |-> [type |-> "unwrapped", start |-> hashIndex,
                            end |-> parsed.end, rawText |-> parsed.rawText],
                  i |-> parsed.end]
            ELSE [done |-> FALSE, item |-> null, i |-> hashIndex + 1]
        orUnwrapped(hashIndex, st) ==
            IF st.item # null THEN st
            ELSE unwrappedItem(hashIndex, extractUnwrappedTag(s, hashIndex + 1))
        atHash(hashIndex) ==
            IF hashIndex < 0 THEN [done |-> TRUE, item |-> null, i |-> i]
            ELSE IF hasLoneSurrogate(s, hashIndex)
            THEN [done |-> FALSE, item |-> null, i |-> hashIndex + 1]
            ELSE IF ~isUnescapedHash(s, hashIndex)
            THEN [done |-> FALSE, item |-> null, i |-> hashIndex + 1]
            ELSE IF hashIndex + 1 < n /\ charCodeAt(s, hashIndex + 1) = LtSign
            THEN orUnwrapped(hashIndex,
                             wrappedItem(hashIndex, extractWrappedTag(s, hashIndex)))
            ELSE unwrappedItem(hashIndex, extractUnwrappedTag(s, hashIndex + 1))
    IN  atHash(indexOf(s, Hash, i))

(* scanStep that stays at the '#' when wrapped extraction fails. *)
scanStep_noAdvance(s, i) ==
    LET n == Len(s)
        wrappedItem(hashIndex, parsed) ==
            IF parsed # null
            THEN [done |-> FALSE,
                  item |-> [type |-> "wrapped", start |-> hashIndex,
                            end |-> parsed.end, rawText |-> parsed.rawText],
                  i |-> parsed.end]
            ELSE [done |-> FALSE, item |-> null, i |-> hashIndex]
        unwrappedItem(hashIndex, parsed) ==
            IF parsed # null /\ Len(unescapeHashtagText(parsed.rawText)) > 0
               /\ ~hasAnyLoneSurrogate(unescapeHashtagText(parsed.rawText))
            THEN [done |-> FALSE,
                  item |-> [type |-> "unwrapped", start |-> hashIndex,
                            end |-> parsed.end, rawText |-> parsed.rawText],
                  i |-> parsed.end]
            ELSE [done |-> FALSE, item |-> null, i |-> hashIndex + 1]
        atHash(hashIndex) ==
            IF hashIndex < 0 THEN [done |-> TRUE, item |-> null, i |-> i]
            ELSE IF hasLoneSurrogate(s, hashIndex)
            THEN [done |-> FALSE, item |-> null, i |-> hashIndex + 1]
            ELSE IF ~isUnescapedHash(s, hashIndex)
            THEN [done |-> FALSE, item |-> null, i |-> hashIndex + 1]
            ELSE IF hashIndex + 1 < n /\ charCodeAt(s, hashIndex + 1) = LtSign
            THEN wrappedItem(hashIndex, extractWrappedTag(s, hashIndex))
            ELSE unwrappedItem(hashIndex, extractUnwrappedTag(s, hashIndex + 1))
    IN  atHash(indexOf(s, Hash, i))

(* scanStep that gives up the rest of the input after a failed wrapped  *)
(* attempt.                                                               *)
scanStep_failedWrappedSkipsRest(s, i) ==
    LET n == Len(s)
        wrappedItem(hashIndex, parsed) ==
            IF parsed # null
            THEN [done |-> FALSE,
                  item |-> [type |-> "wrapped", start |-> hashIndex,
                            end |-> parsed.end, rawText |-> parsed.rawText],
                  i |-> parsed.end]
            ELSE [done |-> FALSE, item |-> null, i |-> n]
        unwrappedItem(hashIndex, parsed) ==
            IF parsed # null /\ Len(unescapeHashtagText(parsed.rawText)) > 0
               /\ ~hasAnyLoneSurrogate(unescapeHashtagText(parsed.rawText))
            THEN [done |-> FALSE,
                  item |-> [type |-> "unwrapped", start |-> hashIndex,
                            end |-> parsed.end, rawText |-> parsed.rawText],
                  i |-> parsed.end]
            ELSE [done |-> FALSE, item |-> null, i |-> hashIndex + 1]
        atHash(hashIndex) ==
            IF hashIndex < 0 THEN [done |-> TRUE, item |-> null, i |-> i]
            ELSE IF hasLoneSurrogate(s, hashIndex)
            THEN [done |-> FALSE, item |-> null, i |-> hashIndex + 1]
            ELSE IF ~isUnescapedHash(s, hashIndex)
            THEN [done |-> FALSE, item |-> null, i |-> hashIndex + 1]
            ELSE IF hashIndex + 1 < n /\ charCodeAt(s, hashIndex + 1) = LtSign
            THEN wrappedItem(hashIndex, extractWrappedTag(s, hashIndex))
            ELSE unwrappedItem(hashIndex, extractUnwrappedTag(s, hashIndex + 1))
    IN  atHash(indexOf(s, Hash, i))

(* One iteration of the while loop of scanAllHashtags, entered with i < n: *)
(* done means the generator returns, item is the yielded value (or null),  *)
(* i is the value of i after the iteration.                                *)
scanStep(s, i) ==
    LET n == Len(s)
        wrappedItem(hashIndex, parsed) ==
            IF parsed # null
            THEN [done |-> FALSE,
                  item |-> [type |-> "wrapped", start |-> hashIndex,
                            end |-> parsed.end, rawText |-> parsed.rawText],
                  i |-> parsed.end]
            ELSE [done |-> FALSE, item |-> null, i |-> hashIndex + 2]
        unwrappedItem(hashIndex, parsed) ==
            IF parsed # null /\ Len(unescapeHashtagText(parsed.rawText)) > 0
               /\ ~hasAnyLoneSurrogate(unescapeHashtagText(parsed.rawText))
            THEN [done |-> FALSE,
                  item |-> [type |-> "unwrapped", start |-> hashIndex,
                            end |-> parsed.end, rawText |-> parsed.rawText],
                  i |-> parsed.end]
            ELSE [done |-> FALSE, item |-> null, i |-> hashIndex + 1]
        atHash(hashIndex) ==
            IF hashIndex < 0 THEN [done |-> TRUE, item |-> null, i |-> i]
            ELSE IF hasLoneSurrogate(s, hashIndex)
            THEN [done |-> FALSE, item |-> null, i |-> hashIndex + 1]
            ELSE IF ~isUnescapedHash(s, hashIndex)
            THEN [done |-> FALSE, item |-> null, i |-> hashIndex + 1]
            ELSE IF hashIndex + 1 < n /\ charCodeAt(s, hashIndex + 1) = LtSign
            THEN wrappedItem(hashIndex, extractWrappedTag(s, hashIndex))
            ELSE unwrappedItem(hashIndex, extractUnwrappedTag(s, hashIndex + 1))
    IN  atHash(indexOf(s, Hash, i))

RECURSIVE scanLoop(_, _)
scanLoop(s, i) ==
    IF i >= Len(s) THEN <<>>
    ELSE LET after(st) ==
                 IF st.done THEN <<>>
                 ELSE (IF st.item # null THEN <<st.item>> ELSE <<>>)
                      \o scanLoop(s, st.i)
         IN  after(scanStep(s, i))

(* The sequence of values the generator yields when run to completion. *)
scanAllHashtags(s, fromIndex) == scanLoop(s, fromIndex)

----------------------------------------------------------------------------
(* Synthesizer *)

RECURSIVE canBeUnwrappedFrom(_, _)
canBeUnwrappedFrom(s, i) ==
    IF i >= Len(s) THEN TRUE
    ELSE IF hasLoneSurrogate(s, i) THEN FALSE
    ELSE IF isLineBreakChar(charCodeAt(s, i)) THEN FALSE
    ELSE IF isStrongTerminator(charCodeAt(s, i)) THEN FALSE
    ELSE canBeUnwrappedFrom(s, i + (IF isSurrogatePair(s, i) THEN 2 ELSE 1))

(* canBeUnwrapped that also refuses angle brackets. *)
RECURSIVE canBeUnwrappedFrom_noAngle(_, _)
canBeUnwrappedFrom_noAngle(s, i) ==
    IF i >= Len(s) THEN TRUE
    ELSE IF hasLoneSurrogate(s, i) THEN FALSE
    ELSE IF isLineBreakChar(charCodeAt(s, i)) THEN FALSE
    ELSE IF isStrongTerminator(charCodeAt(s, i)) THEN FALSE
    ELSE IF charCodeAt(s, i) = LtSign \/ charCodeAt(s, i) = GtSign THEN FALSE
    ELSE canBeUnwrappedFrom_noAngle(s, i + (IF isSurrogatePair(s, i) THEN 2 ELSE 1))

canBeUnwrapped_noAngle(s) == canBeUnwrappedFrom_noAngle(s, 0)

canBeUnwrapped(s) == canBeUnwrappedFrom(s, 0)

(* escapeAsUnwrappedStep that does not escape a leading '<'. *)
escapeAsUnwrappedStep_noLeadingAngle(s, i) ==
    LET ch == s[i + 1]
    IN  IF hasLoneSurrogate(s, i) THEN [fail |-> TRUE, out |-> <<>>, i |-> i]
        ELSE IF isLineBreakChar(charCodeAt(s, i))
        THEN [fail |-> TRUE, out |-> <<>>, i |-> i]
        ELSE IF ch = Backslash \/ ch = Hash
        THEN [fail |-> FALSE, out |-> <<Backslash, ch>>, i |-> i + 1]
        ELSE IF isSurrogatePair(s, i)
        THEN [fail |-> FALSE, out |-> slice(s, i, i + 2), i |-> i + 2]
        ELSE [fail |-> FALSE, out |-> <<ch>>, i |-> i + 1]

(* One iteration of the for loop of escapeAsUnwrapped: fail means the     *)
(* function returns '', out is what the iteration pushes, i the next i.   *)
escapeAsUnwrappedStep(s, i) ==
    LET ch == s[i + 1]
    IN  IF hasLoneSurrogate(s, i) THEN [fail |-> TRUE, out |-> <<>>, i |-> i]
        ELSE IF isLineBreakChar(charCodeAt(s, i))
        THEN [fail |-> TRUE, out |-> <<>>, i |-> i]
        ELSE IF i = 0 /\ ch = LtSign
        THEN [fail |-> FALSE, out |-> <<Backslash, ch>>, i |-> i + 1]
        ELSE IF ch = Backslash \/ ch = Hash
        THEN [fail |-> FALSE, out |-> <<Backslash, ch>>, i |-> i + 1]
        ELSE IF isSurrogatePair(s, i)
        THEN [fail |-> FALSE, out |-> slice(s, i, i + 2), i |-> i + 2]
        ELSE [fail |-> FALSE, out |-> <<ch>>, i |-> i + 1]

(* The loop; the result is [fail, out]. *)
RECURSIVE escapeAsUnwrappedLoop(_, _)
escapeAsUnwrappedLoop(s, i) ==
    IF i >= Len(s) THEN [fail |-> FALSE, out |-> <<>>]
    ELSE LET st == escapeAsUnwrappedStep(s, i)
         IN  IF st.fail THEN [fail |-> TRUE, out |-> <<>>]
             ELSE LET rest == escapeAsUnwrappedLoop(s, st.i)
                  IN  IF rest.fail THEN rest
                      ELSE [fail |-> FALSE, out |-> st.out \o rest.out]

escapeAsUnwrapped(s) ==
    LET r == escapeAsUnwrappedLoop(s, 0) IN IF r.fail THEN <<>> ELSE r.out

(* escapeAsWrappedStep that leaves a backslash of the text bare. *)
escapeAsWrappedStep_bareBackslash(s, i) ==
    LET ch == s[i + 1]
    IN  IF hasLoneSurrogate(s, i) THEN [fail |-> TRUE, out |-> <<>>, i |-> i]
        ELSE IF ch = GtSign \/ ch = LtSign
        THEN [fail |-> FALSE, out |-> <<Backslash, ch>>, i |-> i + 1]
        ELSE IF isSurrogatePair(s, i)
        THEN [fail |-> FALSE, out |-> slice(s, i, i + 2), i |-> i + 2]
        ELSE [fail |-> FALSE, out |-> <<ch>>, i |-> i + 1]

(* escapeAsWrappedStep that leaves '>' bare. *)
escapeAsWrappedStep_bareGt(s, i) ==
    LET ch == s[i + 1]
    IN  IF hasLoneSurrogate(s, i) THEN [fail |-> TRUE, out |-> <<>>, i |-> i]
        ELSE IF ch = Backslash \/ ch = LtSign
        THEN [fail |-> FALSE, out |-> <<Backslash, ch>>, i |-> i + 1]
        ELSE IF isSurrogatePair(s, i)
        THEN [fail |-> FALSE, out |-> slice(s, i, i + 2), i |-> i + 2]
        ELSE [fail |-> FALSE, out |-> <<ch>>, i |-> i + 1]

(* One iteration of the for loop of escapeAsWrapped. *)
escapeAsWrappedStep(s, i) ==
    LET ch == s[i + 1]
    IN  IF hasLoneSurrogate(s, i) THEN [fail |-> TRUE, out |-> <<>>, i |-> i]
        ELSE IF ch = Backslash \/ ch = GtSign \/ ch = LtSign
        THEN [fail |-> FALSE, out |-> <<Backslash, ch>>, i |-> i + 1]
        ELSE IF isSurrogatePair(s, i)
        THEN [fail |-> FALSE, out |-> slice(s, i, i + 2), i |-> i + 2]
        ELSE [fail |-> FALSE, out |-> <<ch>>, i |-> i + 1]

RECURSIVE escapeAsWrappedLoop(_, _)
escapeAsWrappedLoop(s, i) ==
    IF i >= Len(s) THEN [fail |-> FALSE, out |-> <<>>]
    ELSE LET st == escapeAsWrappedStep(s, i)
         IN  IF st.fail THEN [fail |-> TRUE, out |-> <<>>]
             ELSE LET rest == escapeAsWrappedLoop(s, st.i)
                  IN  IF rest.fail THEN rest
                      ELSE [fail |-> FALSE, out |-> st.out \o rest.out]

escapeAsWrapped(s) ==
    LET r == escapeAsWrappedLoop(s, 0) IN IF r.fail THEN <<>> ELSE r.out

(* createHashtag that prefixes the escaped text without looking at its   *)
(* length.                                                                *)
createHashtag_noLengthTest(s) ==
    IF canBeUnwrapped(s)
    THEN <<Hash>> \o escapeAsUnwrapped(s)
    ELSE <<Hash, LtSign>> \o escapeAsWrapped(s) \o <<GtSign>>

createHashtag(s) ==
    IF Len(s) = 0 THEN <<>>
    ELSE IF hasAnyLoneSurrogate(s) THEN <<>>
    ELSE IF canBeUnwrapped(s)
    THEN LET escaped == escapeAsUnwrapped(s)
         IN  IF Len(escaped) > 0 THEN <<Hash>> \o escaped ELSE <<>>
    ELSE LET escaped == escapeAsWrapped(s)
         IN  IF Len(escaped) > 0 THEN <<Hash, LtSign>> \o escaped \o <<GtSign>>
             ELSE <<>>

----------------------------------------------------------------------------
(* Matcher facade: hashtagPattern *)

(* toMatch that builds raw without the wrappers of a wrapped hashtag. *)
toMatch_rawWithoutWrappers(item) ==
    LET raw == <<Hash>> \o item.rawText
        unescaped == unescapeHashtagText(item.rawText)
    IN  IF Len(unescaped) = 0 \/ hasAnyLoneSurrogate(unescaped) THEN null
        ELSE [type |-> item.type, start |-> item.start, end |-> item.end,
              raw |-> raw, rawText |-> item.rawText,
              text |-> IF item.type = "wrapped"
                       THEN normalizeWrappedText(unescaped)
                       ELSE unescaped]

toMatch(item) ==
    LET raw == IF item.type = "wrapped"
               THEN <<Hash, LtSign>> \o item.rawText \o <<GtSign>>
               ELSE <<Hash>> \o item.rawText
        unescaped == unescapeHashtagText(item.rawText)
    IN  IF Len(unescaped) = 0 \/ hasAnyLoneSurrogate(unescaped) THEN null
        ELSE [type |-> item.type, start |-> item.start, end |-> item.end,
              raw |-> raw, rawText |-> item.rawText,
              text |-> IF item.type = "wrapped"
                       THEN normalizeWrappedText(unescaped)
                       ELSE unescaped]

(* A RegExpExecArray: its elements, and its index and input properties. *)
toExecArray(match, includeTypeGroup, capture, s) ==
    LET payload == IF capture = "text" THEN match.text ELSE match.rawText
    IN  [elems |-> IF includeTypeGroup
                   THEN <<match.raw, payload, match.type>>
                   ELSE <<match.raw, payload>>,
         index |-> match.start,
         input |-> s]

(* lastIndex coerced to a non-negative integer: n > 0 ? n - (n % 1) : 0 *)
coerceIndex(n) == IF n > 0 THEN n ELSE 0

(* The next value the generator yields when resumed with i, or null when *)
(* it returns; after a yield the generator continues at the item's end.   *)
RECURSIVE nextItem(_, _)
nextItem(s, i) ==
    IF i >= Len(s) THEN null
    ELSE LET after(st) == IF st.done THEN null
                           ELSE IF st.item # null THEN st.item
                           ELSE nextItem(s, st.i)
         IN  after(scanStep(s, i))

(* firstMatch that, after an item of another type, goes on right after   *)
(* that item's '#' instead of after the item.                             *)
RECURSIVE firstMatch_rescansSkipped(_, _, _)
firstMatch_rescansSkipped(s, type, i) ==
    LET accept(item, m) ==
            IF m # null THEN m ELSE firstMatch_rescansSkipped(s, type, item.end)
        visit(item) ==
            IF item = null THEN null
            ELSE IF type # "any" /\ item.type # type
            THEN firstMatch_rescansSkipped(s, type, item.start + 1)
            ELSE accept(item, toMatch(item))
    IN  visit(nextItem(s, i))

(* The for loop of the non-sticky path: the first item of the wanted type *)
(* that toMatch accepts, or null.                                         *)
RECURSIVE firstMatch(_, _, _)
firstMatch(s, type, i) ==
    LET accept(item, m) == IF m # null THEN m ELSE firstMatch(s, type, item.end)
        visit(item) ==
            IF item = null THEN null
            ELSE IF type # "any" /\ item.type # type
            THEN firstMatch(s, type, item.end)
            ELSE accept(item, toMatch(item))
    IN  visit(nextItem(s, i))

(* execInternal that keeps lastIndex when it lies beyond the input. *)
execInternal_keepBeyond(s, o, li) ==
    LET cursor == o.global \/ o.sticky
        i == coerceIndex(li)
        startIndex == IF cursor
                      THEN (IF i <= Len(s) THEN i ELSE Len(s) + 1)
                      ELSE 0
        li1 == IF cursor THEN i ELSE li
        stickyAt(item) ==
            IF item # null /\ item.start = startIndex
               /\ (o.type = "any" \/ item.type = o.type)
            THEN [m |-> toMatch(item), lastIndex |-> li1]
            ELSE [m |-> null, lastIndex |-> 0]
        found(m) ==
            IF m # null THEN [m |-> m, lastIndex |-> li1]
            ELSE [m |-> null, lastIndex |-> IF cursor THEN 0 ELSE li1]
    IN  IF cursor /\ startIndex > Len(s) THEN [m |-> null, lastIndex |-> li1]
        ELSE IF o.sticky THEN stickyAt(nextItem(s, startIndex))
        ELSE found(firstMatch(s, o.type, startIndex))

(* execInternal whose sticky path accepts the next item wherever it starts. *)
execInternal_stickyAnywhere(s, o, li) ==
    LET cursor == o.global \/ o.sticky
        i == coerceIndex(li)
        startIndex == IF cursor
                      THEN (IF i <= Len(s) THEN i ELSE Len(s) + 1)
                      ELSE 0
        li1 == IF cursor THEN (IF startIndex > Len(s) THEN 0 ELSE i) ELSE li
        stickyAt(item) ==
            IF item # null /\ (o.type = "any" \/ item.type = o.type)
            THEN [m |-> toMatch(item), lastIndex |-> li1]
            ELSE [m |-> null, lastIndex |-> 0]
        found(m) ==
            IF m # null THEN [m |-> m, lastIndex |-> li1]
            ELSE [m |-> null, lastIndex |-> IF cursor THEN 0 ELSE li1]
    IN  IF cursor /\ startIndex > Len(s) THEN [m |-> null, lastIndex |-> li1]
        ELSE IF o.sticky THEN stickyAt(nextItem(s, startIndex))
        ELSE found(firstMatch(s, o.type, startIndex))

(* execInternal that starts at lastIndex whatever the flags are. *)
execInternal_alwaysCursor(s, o, li) ==
    LET cursor == TRUE
        i == coerceIndex(li)
        startIndex == IF cursor
                      THEN (IF i <= Len(s) THEN i ELSE Len(s) + 1)
                      ELSE 0
        li1 == IF cursor THEN (IF startIndex > Len(s) THEN 0 ELSE i) ELSE li
        stickyAt(item) ==
            IF item # null /\ item.start = startIndex
               /\ (o.type = "any" \/ item.type = o.type)
            THEN [m |-> toMatch(item), lastIndex |-> li1]
            ELSE [m |-> null, lastIndex |-> 0]
        found(m) ==
            IF m # null THEN [m |-> m, lastIndex |-> li1]
            ELSE [m |-> null, lastIndex |-> IF cursor THEN 0 ELSE li1]
    IN  IF cursor /\ startIndex > Len(s) THEN [m |-> null, lastIndex |-> li1]
        ELSE IF o.sticky THEN stickyAt(nextItem(s, startIndex))
        ELSE found(firstMatch(s, o.type, startIndex))

(* execInternal: the match (or null) and the value of state.lastIndex     *)
(* when it returns.                                                       *)
execInternal(s, o, li) ==
    LET cursor == o.global \/ o.sticky
        i == coerceIndex(li)
        startIndex == IF cursor
                      THEN (IF i <= Len(s) THEN i ELSE Len(s) + 1)
                      ELSE 0
        li1 == IF cursor THEN (IF startIndex > Len(s) THEN 0 ELSE i) ELSE li
        stickyAt(item) ==
            IF item # null /\ item.start = startIndex
               /\ (o.type = "any" \/ item.type = o.type)
            THEN [m |-> toMatch(item), lastIndex |-> li1]
            ELSE [m |-> null, lastIndex |-> 0]
        found(m) ==
            IF m # null THEN [m |-> m, lastIndex |-> li1]
            ELSE [m |-> null, lastIndex |-> IF cursor THEN 0 ELSE li1]
    IN  IF cursor /\ startIndex > Len(s) THEN [m |-> null, lastIndex |-> li1]
        ELSE IF o.sticky THEN stickyAt(nextItem(s, startIndex))
        ELSE found(firstMatch(s, o.type, startIndex))

(* exec that stores the position after the '#' of the match, not the end *)
(* of the match, in lastIndex.                                            *)
exec_advanceByOne(s, o, li) ==
    LET result(r) ==
            IF r.m = null THEN [ret |-> null, lastIndex |-> r.lastIndex]
            ELSE [ret |-> toExecArray(r.m, o.type = "any", o.capture, s),
                  lastIndex |-> IF o.global \/ o.sticky THEN r.m.start + 1
                                ELSE r.lastIndex]
    IN  result(execInternal(s, o, li))

(* exec: the returned value and state.lastIndex after the call. *)
exec(s, o, li) ==
    LET result(r) ==
            IF r.m = null THEN [ret |-> null, lastIndex |-> r.lastIndex]
            ELSE [ret |-> toExecArray(r.m, o.type = "any", o.capture, s),
                  lastIndex |-> IF o.global \/ o.sticky THEN r.m.end
                                ELSE r.lastIndex]
    IN  result(execInternal(s, o, li))

(* execMatch that moves lastIndex one past the start of the match instead *)
(* of to its end.                                                         *)
execMatch_advanceByOne(s, o, li) ==
    LET result(r) ==
            IF r.m = null THEN [ret |-> null, lastIndex |-> r.lastIndex]
            ELSE [ret |-> r.m,
                  lastIndex |-> IF o.global \/ o.sticky THEN r.m.start + 1
                                ELSE r.lastIndex]
    IN  result(execInternal(s, o, li))

execMatch(s, o, li) ==
    LET result(r) ==
            IF r.m = null THEN [ret |-> null, lastIndex |-> r.lastIndex]
            ELSE [ret |-> r.m,
                  lastIndex |-> IF o.global \/ o.sticky THEN r.m.end
                                ELSE r.lastIndex]
    IN  result(execInternal(s, o, li))

(* The while loop of matchAll: exec on the pattern p until it fails. *)
RECURSIVE matchAllLoop(_, _, _)
matchAllLoop(s, p, li) ==
    LET after(r) == IF r.ret = null THEN <<>>
                    ELSE <<r.ret>> \o matchAllLoop(s, p, r.lastIndex)
    IN  after(exec(s, p, li))

(* matchAll that runs the loop on the receiver itself: same values, but   *)
(* the receiver's lastIndex ends at 0.                                    *)
matchAll_onReceiver(s, o, li) ==
    [ret |-> matchAllLoop(s, [o EXCEPT !.global = TRUE], 0), lastIndex |-> 0]

(* matchAll, consumed to its end: the values yielded, and the receiver's  *)
(* lastIndex afterwards; the loop runs on a pattern p of its own, built   *)
(* from type, sticky and capture with global: true and lastIndex 0.       *)
matchAll(s, o, li) ==
    [ret |-> matchAllLoop(s, [o EXCEPT !.global = TRUE], 0), lastIndex |-> li]

RECURSIVE matchAllMatchesLoop(_, _, _)
matchAllMatchesLoop(s, p, li) ==
    LET after(r) == IF r.ret = null THEN <<>>
                    ELSE <<r.ret>> \o matchAllMatchesLoop(s, p, r.lastIndex)
    IN  after(execMatch(s, p, li))

matchAllMatches(s, o, li) ==
    [ret |-> matchAllMatchesLoop(s, [o EXCEPT !.global = TRUE], 0),
     lastIndex |-> li]

(* Options of the pattern the find functions construct. *)
findPattern(type) ==
    [type |-> type, global |-> TRUE, sticky |-> FALSE, capture |-> "rawText"]

findFirstHashtag(s, type, fromIndex) ==
    execMatch(s, findPattern(type),
              IF fromIndex # undefined THEN coerceIndex(fromIndex) ELSE 0).ret

RECURSIVE findAllLoop(_, _, _)
findAllLoop(s, type, li) ==
    LET after(r) == IF r.ret = null THEN <<>>
                    ELSE <<r.ret>> \o findAllLoop(s, type, r.lastIndex)
    IN  after(execMatch(s, findPattern(type), li))

(* findAllHashtags that does not apply the fromIndex option. *)
findAllHashtags_ignoresFromIndex(s, type, fromIndex) ==
    findAllLoop(s, type, 0)

findAllHashtags(s, type, fromIndex) ==
    findAllLoop(s, type,
                IF fromIndex # undefined THEN coerceIndex(fromIndex) ELSE 0)

(* iterateHashtags, consumed to its end: the values it yields. *)
RECURSIVE iterateLoop(_, _, _)
iterateLoop(s, type, li) ==
    LET after(r) == IF r.ret = null THEN <<>>
                    ELSE <<r.ret>> \o iterateLoop(s, type, r.lastIndex)
    IN  after(execMatch(s, findPattern(type), li))

iterateHashtags(s, type, fromIndex) ==
    iterateLoop(s, type,
                IF fromIndex # undefined THEN coerceIndex(fromIndex) ELSE 0)

----------------------------------------------------------------------------
(* Operations *)

Types == {"any", "wrapped", "unwrapped"}

NoOpts == findPattern("any")

NoArg == [type |-> "any", fromIndex |-> undefined]

(* findFirstHashtag(input, {type, fromIndex}) *)
FindFirstHashtag(type, fromIndex) ==
    /\ ret' = findFirstHashtag(input, type, fromIndex)
    /\ op' = "findFirstHashtag"
    /\ arg' = [type |-> type, fromIndex |-> fromIndex]
    /\ UNCHANGED <<input, text, opts, lastIndex, yielded>>

(* findAllHashtags(input, {type, fromIndex}) *)
FindAllHashtags(type, fromIndex) ==
    /\ ret' = findAllHashtags(input, type, fromIndex)
    /\ op' = "findAllHashtags"
    /\ arg' = [type |-> type, fromIndex |-> fromIndex]
    /\ UNCHANGED <<input, text, opts, lastIndex, yielded>>

(* [...iterateHashtags(input, {type, fromIndex})] *)
IterateHashtags(type, fromIndex) ==
    /\ ret' = iterateHashtags(input, type, fromIndex)
    /\ op' = "iterateHashtags"
    /\ arg' = [type |-> type, fromIndex |-> fromIndex]
    /\ UNCHANGED <<input, text, opts, lastIndex, yielded>>

(* createHashtag(text); its result becomes the string scanned next. *)
CreateHashtag ==
    /\ op = "init"
    /\ input' = createHashtag(text)
    /\ ret' = input'
    /\ op' = "createHashtag"
    /\ UNCHANGED <<text, opts, lastIndex, arg, yielded>>

(* unescapeHashtagText(input) *)
UnescapeHashtagText ==
    /\ ret' = unescapeHashtagText(input)
    /\ op' = "unescapeHashtagText"
    /\ UNCHANGED <<input, text, opts, lastIndex, arg, yielded>>

(* A run is a series of successful calls of one method; it starts with    *)
(* the first call after construction, reset(), an assignment to lastIndex, *)
(* a call of the other method, or a call that returned null. A run is     *)
(* followed for at most MaxRun successful calls.                          *)
RunStarts(method) == IF op = method THEN ret = null ELSE TRUE

(* The values the calls of the current run returned; kept for the runs   *)
(* that start at lastIndex 0.                                             *)
Yielded(method, r) ==
    LET start == IF RunStarts(method) THEN lastIndex ELSE arg.runStart
        sofar == IF RunStarts(method) THEN <<>> ELSE yielded
    IN  IF start # 0 THEN <<>>
        ELSE IF r = null THEN sofar
        ELSE sofar \o <<r>>

(* pattern.exec(input) *)
Exec ==
    LET returns(r) ==
            /\ ret' = r.ret
            /\ lastIndex' = r.lastIndex
            /\ yielded' = Yielded("exec", r.ret)
    IN  /\ RunStarts("exec") \/ Len(yielded) < MaxRun
        /\ returns(exec(input, opts, lastIndex))
        /\ op' = "exec"
        /\ arg' = [before |-> lastIndex,
                   runStart |-> IF RunStarts("exec") THEN lastIndex ELSE arg.runStart]
        /\ UNCHANGED <<input, text, opts>>

(* pattern.execMatch(input) *)
ExecMatch ==
    LET returns(r) ==
            /\ ret' = r.ret
            /\ lastIndex' = r.lastIndex
            /\ yielded' = Yielded("execMatch", r.ret)
    IN  /\ RunStarts("execMatch") \/ Len(yielded) < MaxRun
        /\ returns(execMatch(input, opts, lastIndex))
        /\ op' = "execMatch"
        /\ arg' = [before |-> lastIndex,
                   runStart |-> IF RunStarts("execMatch") THEN lastIndex
                                ELSE arg.runStart]
        /\ UNCHANGED <<input, text, opts>>

(* [...pattern.matchAll(input)] *)
MatchAll ==
    LET returns(r) ==
            /\ ret' = r.ret
            /\ lastIndex' = r.lastIndex
    IN  /\ returns(matchAll(input, opts, lastIndex))
        /\ op' = "matchAll"
        /\ arg' = [before |-> lastIndex, runStart |-> lastIndex]
        /\ yielded' = <<>>
        /\ UNCHANGED <<input, text, opts>>

(* [...pattern.matchAllMatches(input)] *)
MatchAllMatches ==
    LET returns(r) ==
            /\ ret' = r.ret
            /\ lastIndex' = r.lastIndex
    IN  /\ returns(matchAllMatches(input, opts, lastIndex))
        /\ op' = "matchAllMatches"
        /\ arg' = [before |-> lastIndex, runStart |-> lastIndex]
        /\ yielded' = <<>>
        /\ UNCHANGED <<input, text, opts>>

(* pattern.lastIndex = v *)
SetLastIndex(v) ==
    /\ lastIndex' = coerceIndex(v)
    /\ op' = "setLastIndex"
    /\ arg' = [before |-> coerceIndex(v), runStart |-> coerceIndex(v)]
    /\ ret' = null
    /\ yielded' = <<>>
    /\ UNCHANGED <<input, text, opts>>

(* pattern.reset() *)
Reset ==
    /\ lastIndex' = 0
    /\ op' = "reset"
    /\ arg' = [before |-> 0, runStart |-> 0]
    /\ ret' = null
    /\ yielded' = <<>>
    /\ UNCHANGED <<input, text, opts>>

----------------------------------------------------------------------------
(* Specifications *)

(* The cursor-free find functions over every short input. *)
Init ==
    /\ input \in Strings(ScanAlphabet, MaxLen)
    /\ text = <<>>
    /\ opts = NoOpts
    /\ lastIndex = 0
    /\ op = "init"
    /\ arg = NoArg
    /\ ret = null
    /\ yielded = <<>>

Next ==
    \/ FindFirstHashtag("any", undefined)
    \/ FindAllHashtags("any", undefined)

Spec == Init /\ [][Next]_vars

(* The find functions over one wrapped candidate whose content mixes     *)
(* line breaks, horizontal whitespace, escapes and ordinary characters.   *)
WrapAlphabet == {CR, LF, SP, HT, Backslash, 97}

InitWrapped ==
    /\ input \in {<<Hash, LtSign>> \o c \o <<GtSign>> :
                      c \in Strings(WrapAlphabet, MaxWrapLen)}
    /\ text = <<>>
    /\ opts = NoOpts
    /\ lastIndex = 0
    /\ op = "init"
    /\ arg = NoArg
    /\ ret = null
    /\ yielded = <<>>

SpecWrapped == InitWrapped /\ [][Next]_vars

(* The exported unescaper applied to every short string. *)
NextUnescape == UnescapeHashtagText

SpecUnescape == Init /\ [][NextUnescape]_vars

(* The three scans of a whole input, over the code units that make the  *)
(* scanner skip, fail or stop: '#', '<', '>', backslash, a letter, a line *)
(* break and a lone surrogate.                                            *)
IterAlphabet == {Hash, LtSign, GtSign, Backslash, 97, LF, 55357}

InitIterate ==
    /\ input \in Strings(IterAlphabet, MaxIterLen)
    /\ text = <<>>
    /\ opts = NoOpts
    /\ lastIndex = 0
    /\ op = "init"
    /\ arg = NoArg
    /\ ret = null
    /\ yielded = <<>>

NextIterate ==
    \/ FindFirstHashtag("any", undefined)
    \/ FindAllHashtags("any", undefined)
    \/ IterateHashtags("any", undefined)

SpecIterate == InitIterate /\ [][NextIterate]_vars

(* Synthesis followed by a scan of the synthesized string. *)
InitSynth ==
    /\ text \in Strings(TextAlphabet, MaxTextLen)
    /\ input = <<>>
    /\ opts = NoOpts
    /\ lastIndex = 0
    /\ op = "init"
    /\ arg = NoArg
    /\ ret = null
    /\ yielded = <<>>

NextSynth ==
    \/ CreateHashtag
    \/ op # "init" /\ FindFirstHashtag("any", undefined)
    \/ op # "init" /\ FindAllHashtags("any", undefined)

SpecSynth == InitSynth /\ [][NextSynth]_vars

(* One hashtagPattern instance driven by its methods. *)
InitPattern ==
    /\ input \in PatInputs
    /\ text = <<>>
    /\ opts \in [type : Types, global : BOOLEAN, sticky : BOOLEAN,
                 capture : {"rawText"}]
    /\ lastIndex = 0
    /\ op = "init"
    /\ arg = [before |-> 0, runStart |-> 0]
    /\ ret = null
    /\ yielded = <<>>

NextPattern ==
    \/ Exec
    \/ ExecMatch
    \/ MatchAll
    \/ MatchAllMatches
    \/ \E v \in 0..(Len(input) + 1) : SetLastIndex(v)
    \/ Reset

SpecPattern == InitPattern /\ [][NextPattern]_vars

----------------------------------------------------------------------------
(* Vocabulary of the properties *)

(* Character classes of the documented grammar (README, Appendix A). *)
DocStrongTerminator(c) == c \in (0..31) \cup {127} \cup {32} \cup (128..159)

DocPunctuationTrailing ==
    {46, 44, 33, 63, 59, 58, 183, 2404, 2405, 1548, 1563, 1567, 1748,
     1417, 1371, 1372, 1374, 4961, 4962, 4963, 4964, 4965, 4347}

DocPunctuationNone ==
    {3853, 3854, 12290, 12289, 65292, 65311, 65281, 65307, 65306, 12539, 65294}

DocPunctuation == DocPunctuationTrailing \cup DocPunctuationNone

(* Number of consecutive backslashes immediately before index p (0-based). *)
BackslashRun(s, p) ==
    CHOOSE k \in 0..p :
        /\ \A j \in 1..k : s[p - j + 1] = 92
        /\ (k = p \/ s[p - k] # 92)

(* Index p holds a '#' preceded by an even number of backslashes. *)
UnescapedHashAt(s, p) ==
    p >= 0 /\ p < Len(s) /\ s[p + 1] = 35 /\ BackslashRun(s, p) % 2 = 0

(* A lone surrogate at index p, by the definition of UTF-16. *)
LoneSurrogateAt(s, p) ==
    LET hi(c) == c \in 55296..56319
        lo(c) == c \in 56320..57343
    IN  \/ hi(s[p + 1]) /\ (p + 1 >= Len(s) \/ ~lo(s[p + 2]))
        \/ lo(s[p + 1]) /\ (p = 0 \/ ~hi(s[p]))

HasLoneSurrogate(s) == \E p \in 0..(Len(s) - 1) : LoneSurrogateAt(s, p)

(* The matches the last find operation returned, as a sequence. *)
FoundMatches ==
    IF op = "findAllHashtags" THEN ret
    ELSE IF op = "findFirstHashtag" /\ ret # null THEN <<ret>>
    ELSE <<>>

SeqRange(q) == {q[k] : k \in 1..Len(q)}

(* The unescaped '#' at p begins a valid hashtag: wrapped when a '<'      *)
(* follows (README B.4), unwrapped otherwise.                             *)
ValidHashtagAt(s, p) ==
    /\ UnescapedHashAt(s, p)
    /\ IF p + 1 < Len(s) /\ s[p + 2] = 60
       THEN extractWrappedTag(s, p) # null
       ELSE LET u == extractUnwrappedTag(s, p + 1)
            IN  u # null /\ Len(unescapeHashtagText(u.rawText)) > 0

----------------------------------------------------------------------------
(* Properties *)

(* C1: round-trip law: for every non-empty text without a lone surrogate, *)
(* findFirstHashtag(createHashtag(text)) is a match whose text is the     *)
(* original text.                                                         *)
C1_RoundTrip ==
    (op = "findFirstHashtag" /\ Len(text) > 0 /\ ~HasLoneSurrogate(text))
        => (ret # null /\ ret.text = text)

(* C2: leftmost match: findFirstHashtag returns a hashtag that starts at  *)
(* a valid '#', no '#' before it begins a valid hashtag, and the result   *)
(* is null only when no '#' of the input begins a valid hashtag.          *)
C2_LeftmostMatch ==
    op = "findFirstHashtag" =>
        IF ret = null
        THEN \A p \in 0..(Len(input) - 1) : ~ValidHashtagAt(input, p)
        ELSE /\ ValidHashtagAt(input, ret.start)
             /\ \A p \in 0..(ret.start - 1) : ~ValidHashtagAt(input, p)

(* An unescaped '#' that begins no hashtag precedes the returned match. *)
C2_Witness ==
    /\ op = "findFirstHashtag"
    /\ ret # null
    /\ \E p \in 0..(ret.start - 1) : UnescapedHashAt(input, p)

(* C3: wrapped precedence without fallback: a match starting at a '#'     *)
(* followed by '<' is wrapped, and when wrapped extraction fails at such  *)
(* a '#', no match of any type starts there.                              *)
C3_WrappedNoFallback ==
    op \in {"findFirstHashtag", "findAllHashtags"} =>
        /\ \A m \in SeqRange(FoundMatches) :
              (m.start + 1 < Len(input) /\ input[m.start + 2] = 60)
                  => m.type = "wrapped"
        /\ \A p \in 0..(Len(input) - 2) :
              (UnescapedHashAt(input, p) /\ input[p + 2] = 60
               /\ extractWrappedTag(input, p) = null)
                  => \A m \in SeqRange(FoundMatches) : m.start # p

(* Wrapped extraction fails at a '#<' where unwrapped extraction would    *)
(* have produced content.                                                 *)
C3_Witness ==
    /\ op = "findAllHashtags"
    /\ \E p \in 0..(Len(input) - 2) :
          /\ UnescapedHashAt(input, p)
          /\ input[p + 2] = 60
          /\ extractWrappedTag(input, p) = null
          /\ extractUnwrappedTag(input, p + 1) # null

(* The start offset of the value the last exec or execMatch returned. *)
RetStart == IF op = "exec" THEN ret.index ELSE ret.start

(* Where the last exec or execMatch began to scan. *)
ScanStart == IF opts.global \/ opts.sticky THEN arg.before ELSE 0

(* C4: escape parity: no match starts at a '#' preceded by an odd run of  *)
(* backslashes; a '#' preceded by an even run, even one lying before the  *)
(* scan start, starts a match exactly when the same '#' with nothing       *)
(* before it does.                                                        *)
C4_EscapeParity ==
    op \in {"exec", "execMatch"} =>
        /\ ret # null => BackslashRun(input, RetStart) % 2 = 0
        /\ LET p == IF opts.sticky THEN ScanStart
                    ELSE indexOf(input, 35, ScanStart)
               bare == execMatch(SubSeq(input, p + 1, Len(input)), opts, 0).ret
           IN  (p >= 0 /\ p < Len(input) /\ input[p + 1] = 35
                /\ BackslashRun(input, p) % 2 = 0)
                   => ((ret # null /\ RetStart = p)
                           <=> (bare # null /\ bare.start = 0))

(* A scan that starts at a '#' behind two backslashes returns that '#'. *)
C4_Witness ==
    /\ op \in {"exec", "execMatch"}
    /\ ret # null
    /\ RetStart = arg.before
    /\ arg.before >= 2
    /\ BackslashRun(input, RetStart) = 2

(* C5: punctuation lookahead: an unescaped trailing-strategy punctuation  *)
(* ends the unwrapped hashtag iff the next code point is a strong         *)
(* terminator, a punctuation character or the end of input; otherwise it  *)
(* is included.                                                           *)
C5_PunctuationLookahead ==
    \A m \in SeqRange(FoundMatches) :
        m.type = "unwrapped" =>
            /\ (m.end < Len(input) /\ input[m.end + 1] \in DocPunctuationTrailing)
                   => \/ m.end + 1 >= Len(input)
                      \/ DocStrongTerminator(input[m.end + 2])
                      \/ input[m.end + 2] \in DocPunctuation
            /\ \A q \in (m.start + 1)..(m.end - 1) :
                   (input[q + 1] \in DocPunctuationTrailing
                    /\ BackslashRun(input, q) % 2 = 0)
                       => /\ q + 1 < Len(input)
                          /\ ~DocStrongTerminator(input[q + 2])
                          /\ input[q + 2] \notin DocPunctuation

C7_LoneSurrogateInvalidates ==
    \A m \in SeqRange(FoundMatches) :
        ~(m.end < Len(input) /\ LoneSurrogateAt(input, m.end))

(* Two matches agree on start, end, rawText and text. *)
SameMatch(a, b) ==
    /\ a # null
    /\ b # null
    /\ a.start = b.start
    /\ a.end = b.end
    /\ a.rawText = b.rawText
    /\ a.text = b.text

RECURSIVE ExpectedFrom(_, _)
ExpectedFrom(items, k) ==
    IF k > Len(items) THEN <<>>
    ELSE IF opts.type # "any" /\ items[k].type # opts.type
    THEN ExpectedFrom(items, k + 1)
    ELSE <<items[k]>> \o ExpectedFrom(items, k + 1)

ExpectedItems == ExpectedFrom(scanAllHashtags(input, 0), 1)

(* C9: global scan exhaustion: from lastIndex 0, repeated exec on a       *)
(* global, non-sticky pattern returns the matches of one pass of the      *)
(* scanner in order, lastIndex is the end of the match after each         *)
(* success, and the call after the last match returns null with           *)
(* lastIndex 0.                                                           *)
C9_GlobalExhaustion ==
    (op = "exec" /\ opts.global /\ ~opts.sticky /\ arg.runStart = 0) =>
        /\ Len(yielded) <= Len(ExpectedItems)
        /\ \A k \in 1..Len(yielded) :
              /\ yielded[k].index = ExpectedItems[k].start
              /\ yielded[k].elems[2] = ExpectedItems[k].rawText
              /\ yielded[k].input = input
        /\ IF ret = null
           THEN Len(yielded) = Len(ExpectedItems) /\ lastIndex = 0
           ELSE lastIndex = ExpectedItems[Len(yielded)].end

(* The run returned two matches and then null. *)
C9_Witness ==
    /\ op = "exec"
    /\ opts.global
    /\ ~opts.sticky
    /\ arg.runStart = 0
    /\ ret = null
    /\ Len(yielded) = 2

(* C10: a failed exec or execMatch of a global or sticky pattern leaves   *)
(* lastIndex at 0, whatever it was before the call.                       *)
C10_FailedExecResets ==
    (op \in {"exec", "execMatch"} /\ (opts.global \/ opts.sticky) /\ ret = null)
        => lastIndex = 0

(* The call failed with lastIndex beyond the end of the input. *)
C10_Witness ==
    /\ op \in {"exec", "execMatch"}
    /\ opts.global \/ opts.sticky
    /\ ret = null
    /\ arg.before > Len(input)
    /\ lastIndex = 0

(* The type of the value the last exec or execMatch returned: a wrapped  *)
(* match is the one whose raw form has '<' right after the '#'.           *)
RetType ==
    IF op = "exec"
    THEN (IF ret.elems[1][2] = 60 THEN "wrapped" ELSE "unwrapped")
    ELSE ret.type

(* The end offset of the value the last exec or execMatch returned. *)
RetEnd == IF op = "exec" THEN ret.index + Len(ret.elems[1]) ELSE ret.end

(* C11: sticky matching: a sticky pattern returns a match only when it    *)
(* starts exactly at the lastIndex the call found and has the pattern's   *)
(* type; on success lastIndex is the end of the match, global or not.     *)
C11_StickyAtCursor ==
    (op \in {"exec", "execMatch"} /\ opts.sticky /\ ret # null) =>
        /\ RetStart = arg.before
        /\ opts.type # "any" => RetType = opts.type
        /\ op = "exec" /\ opts.type = "any" => ret.elems[3] = RetType
        /\ lastIndex = RetEnd

(* A sticky, non-global exec succeeded at a lastIndex behind an earlier    *)
(* hashtag.                                                               *)
C11_Witness ==
    /\ op = "exec"
    /\ opts.sticky
    /\ ~opts.global
    /\ ret # null
    /\ arg.before > 0
    /\ ret.index = arg.before
    /\ lastIndex = RetEnd

(* C12: a pattern that is neither global nor sticky scans from index 0    *)
(* whatever lastIndex is: exec and execMatch return the first match of    *)
(* the pattern's type in the whole input (null when there is none), and   *)
(* lastIndex is what it was before the call.                              *)
C12_NonGlobalCursorFree ==
    (op \in {"exec", "execMatch"} /\ ~opts.global /\ ~opts.sticky) =>
        /\ lastIndex = arg.before
        /\ IF Len(ExpectedItems) = 0 THEN ret = null
           ELSE /\ ret # null
                /\ RetStart = ExpectedItems[1].start
                /\ RetEnd = ExpectedItems[1].end
                /\ RetType = ExpectedItems[1].type

(* A non-global call made with lastIndex behind the first hashtag returned *)
(* that hashtag and left lastIndex alone.                                 *)
C12_Witness ==
    /\ op \in {"exec", "execMatch"}
    /\ ~opts.global
    /\ ~opts.sticky
    /\ ret # null
    /\ arg.before > RetStart
    /\ lastIndex = arg.before

(* The items a sticky cursor accepts one after the other: item k must    *)
(* start where the cursor is and have the pattern's type.                 *)
RECURSIVE StickyPrefix(_, _, _)
StickyPrefix(items, k, pos) ==
    IF k > Len(items) THEN <<>>
    ELSE IF items[k].start # pos THEN <<>>
    ELSE IF opts.type # "any" /\ items[k].type # opts.type THEN <<>>
    ELSE <<items[k]>> \o StickyPrefix(items, k + 1, items[k].end)

(* What matchAll / matchAllMatches returned agrees, element by element,   *)
(* with the scanner items in q.                                           *)
SameAsItems(q) ==
    /\ Len(ret) = Len(q)
    /\ \A k \in 1..Len(q) :
          IF op = "matchAll"
          THEN ret[k] = toExecArray(toMatch(q[k]), opts.type = "any",
                                    opts.capture, input)
          ELSE ret[k] = toMatch(q[k])

(* C13: matchAll and matchAllMatches yield what repeated exec yields on a *)
(* fresh global pattern of the same type from lastIndex 0, i.e. every     *)
(* match of that type of one scanner pass, whatever the receiver's flags  *)
(* and lastIndex are, and leave the receiver's lastIndex alone.           *)
C13_MatchAllEquivalence ==
    op \in {"matchAll", "matchAllMatches"} =>
        /\ SameAsItems(ExpectedItems)
        /\ lastIndex = arg.before

(* C13 as amended: the fresh pattern has the receiver's sticky flag too;  *)
(* a sticky receiver yields the matches that follow one another without   *)
(* a gap from index 0.                                                    *)
C13_MatchAllEquivalenceAmended ==
    op \in {"matchAll", "matchAllMatches"} =>
        /\ SameAsItems(IF opts.sticky
                       THEN StickyPrefix(scanAllHashtags(input, 0), 1, 0)
                       ELSE ExpectedItems)
        /\ lastIndex = arg.before

(* matchAll on a non-global receiver whose lastIndex is not 0 yielded two *)
(* matches.                                                               *)
C13_Witness ==
    /\ op = "matchAll"
    /\ ~opts.global
    /\ arg.before > 0
    /\ Len(ret) = 2
    /\ lastIndex = arg.before

(* Position j (1-based) of u begins a line break: a CR, or an LF that    *)
(* is not the second half of CR LF.                                       *)
BreakStartsAt(u, j) ==
    \/ u[j] = 13
    \/ u[j] = 10 /\ (j = 1 \/ u[j - 1] # 13)

(* Position j holds a space or tab of the run that immediately follows a  *)
(* line break.                                                            *)
InBreakTail(u, j) ==
    /\ u[j] \in {32, 9}
    /\ \E k \in 1..(j - 1) :
          /\ u[k] \in {13, 10}
          /\ \A l \in (k + 1)..(j - 1) : u[l] \in {32, 9}

(* u with every line break replaced by one space and the spaces and tabs  *)
(* immediately after it removed.                                          *)
RECURSIVE BreaksToSpaces(_, _)
BreaksToSpaces(u, j) ==
    IF j > Len(u) THEN <<>>
    ELSE (IF BreakStartsAt(u, j) THEN <<32>>
          ELSE IF u[j] \in {13, 10} \/ InBreakTail(u, j) THEN <<>>
          ELSE <<u[j]>>) \o BreaksToSpaces(u, j + 1)

(* C14: the text of a wrapped match is its unescaped rawText with every   *)
(* line break (CR LF, CR, LF) replaced by one space and the spaces and    *)
(* tabs right after it removed; text has no CR or LF, and rawText is the  *)
(* content as it stands in the input.                                     *)
C14_WrappedLineBreaks ==
    \A k \in 1..Len(FoundMatches) :
        LET m == FoundMatches[k]
        IN  m.type = "wrapped" =>
                /\ m.text = BreaksToSpaces(unescapeHashtagText(m.rawText), 1)
                /\ \A j \in 1..Len(m.text) : m.text[j] \notin {13, 10}
                /\ m.rawText = SubSeq(input, m.start + 3, m.end - 1)

(* A wrapped match whose content has CR LF followed by a space or tab. *)
C14_Witness ==
    \E k \in 1..Len(FoundMatches) :
        LET m == FoundMatches[k]
        IN  /\ m.type = "wrapped"
            /\ \E j \in 1..(Len(m.rawText) - 2) :
                  /\ m.rawText[j] = 13
                  /\ m.rawText[j + 1] = 10
                  /\ m.rawText[j + 2] \in {32, 9}
            /\ Len(m.text) = Len(m.rawText) - 2

(* C15: createHashtag returns the empty string exactly when the text is  *)
(* empty or has a lone surrogate, and a non-empty string beginning with   *)
(* '#' otherwise; scanning the empty result finds nothing.                *)
C15_InvalidSynthesisIsEmpty ==
    op # "init" =>
        /\ input = <<>> <=> (Len(text) = 0 \/ HasLoneSurrogate(text))
        /\ input # <<>> => input[1] = 35
        /\ (input = <<>> /\ op = "findFirstHashtag") => ret = null
        /\ (input = <<>> /\ op = "findAllHashtags") => ret = <<>>

(* A text of several code units with a lone surrogate gave the empty      *)
(* string, and the scan of it found nothing.                              *)
C15_Witness ==
    /\ op = "findFirstHashtag"
    /\ Len(text) > 1
    /\ HasLoneSurrogate(text)
    /\ input = <<>>
    /\ ret = null

(* The code units of e that stand outside escape pairs, reading e from   *)
(* position j (1-based) on.                                               *)
RECURSIVE PlainUnits(_, _)
PlainUnits(e, j) ==
    IF j > Len(e) THEN {}
    ELSE IF e[j] = 92 THEN PlainUnits(e, j + 2)
    ELSE {e[j]} \cup PlainUnits(e, j + 1)

(* The number of escape pairs of e from position j on. *)
RECURSIVE EscapePairs(_, _)
EscapePairs(e, j) ==
    IF j > Len(e) THEN 0
    ELSE IF e[j] = 92 THEN 1 + EscapePairs(e, j + 2)
    ELSE EscapePairs(e, j + 1)

(* How many code units of t are in the set S. *)
CountIn(t, S) == Cardinality({j \in 1..Len(t) : t[j] \in S})

(* t has a strong terminator: a code unit <= 0x20 or in 0x7F..0x9F. *)
HasStrongTerminator(t) ==
    \E j \in 1..Len(t) : t[j] <= 32 \/ t[j] \in 127..159

(* C16: for valid text createHashtag gives '#' + escaped exactly when the *)
(* text has no strong terminator, with every backslash and '#' escaped;   *)
(* otherwise '#<' + escaped + '>' with every backslash, '<' and '>'       *)
(* escaped. Nothing else is escaped, except a '<' that would stand right  *)
(* after the '#' of the unwrapped form, so angle brackets never force the *)
(* wrapped form.                                                          *)
C16_FormSelection ==
    (op # "init" /\ Len(text) > 0 /\ ~HasLoneSurrogate(text)) =>
        IF ~HasStrongTerminator(text)
        THEN LET escaped == SubSeq(input, 2, Len(input))
             IN  /\ input[1] = 35
                 /\ escaped[1] # 60
                 /\ PlainUnits(escaped, 1) \cap {92, 35} = {}
                 /\ unescapeHashtagText(escaped) = text
                 /\ EscapePairs(escaped, 1)
                        = CountIn(text, {92, 35})
                          + (IF text[1] = 60 THEN 1 ELSE 0)
        ELSE LET escaped == SubSeq(input, 3, Len(input) - 1)
             IN  /\ input[1] = 35
                 /\ input[2] = 60
                 /\ input[Len(input)] = 62
                 /\ PlainUnits(escaped, 1) \cap {92, 60, 62} = {}
                 /\ unescapeHashtagText(escaped) = text
                 /\ EscapePairs(escaped, 1) = CountIn(text, {92, 60, 62})

(* A text that begins with '<' and has no strong terminator came out in   *)
(* the unwrapped form, its '<' escaped.                                   *)
C16_Witness ==
    /\ op = "createHashtag"
    /\ Len(text) = 3
    /\ text[1] = 60
    /\ text[2] = 62
    /\ ~HasStrongTerminator(text)
    /\ ~HasLoneSurrogate(text)
    /\ SubSeq(input, 1, 4) = <<35, 92, 60, 62>>

(* s without its escaping backslashes, from position j (1-based) on: a   *)
(* backslash escapes when an even number of backslashes stands right      *)
(* before it.                                                             *)
RECURSIVE WithoutEscapingBackslashes(_, _)
WithoutEscapingBackslashes(s, j) ==
    IF j > Len(s) THEN <<>>
    ELSE (IF s[j] = 92 /\ BackslashRun(s, j - 1) % 2 = 0 THEN <<>> ELSE <<s[j]>>)
         \o WithoutEscapingBackslashes(s, j + 1)

(* C17: unescapeHashtagText leaves a string without backslashes as it is; *)
(* in general, reading left to right, each backslash followed by X gives  *)
(* X alone and a final backslash with nothing after it is dropped.        *)
C17_Unescape ==
    op = "unescapeHashtagText" =>
        /\ ret = WithoutEscapingBackslashes(input, 1)
        /\ (\A j \in 1..Len(input) : input[j] # 92) => ret = input

(* A doubled backslash, a letter and a final backslash gave one backslash *)
(* and the letter.                                                        *)
C17_Witness ==
    /\ op = "unescapeHashtagText"
    /\ input = <<92, 92, 97, 92>>
    /\ ret = <<92, 97>>

(* C18: in an unwrapped match every '#' and every strong terminator of  *)
(* rawText is the escaped element of an escape pair, and no unescaped '#' *)
(* of the input lies inside the match: adjacent hashtags stay apart.      *)
C18_HardTerminators ==
    \A k \in 1..Len(FoundMatches) :
        LET m == FoundMatches[k]
        IN  m.type = "unwrapped" =>
                /\ \A c \in PlainUnits(m.rawText, 1) :
                      c # 35 /\ ~(c <= 32 \/ c \in 127..159)
                /\ \A p \in (m.start + 1)..(m.end - 1) :
                      ~UnescapedHashAt(input, p)

(* Two unwrapped hashtags with nothing between them are two matches. *)
C18_Witness ==
    /\ op = "findAllHashtags"
    /\ Len(ret) = 2
    /\ ret[1].type = "unwrapped"
    /\ ret[2].type = "unwrapped"
    /\ ret[1].end = ret[2].start

(* C19: a punctuation character of the none strategy ends an unwrapped  *)
(* hashtag where it stands, whatever follows: it is in the rawText of an  *)
(* unwrapped match only as the escaped element of an escape pair, and no  *)
(* unwrapped match begins with it.                                        *)
C19_NonePunctuationEnds ==
    \A k \in 1..Len(FoundMatches) :
        LET m == FoundMatches[k]
        IN  m.type = "unwrapped" =>
                PlainUnits(m.rawText, 1) \cap DocPunctuationNone = {}

(* An unwrapped match ended in front of an ideographic full stop that is  *)
(* followed by a letter.                                                  *)
C19_Witness ==
    \E k \in 1..Len(FoundMatches) :
        LET m == FoundMatches[k]
        IN  /\ m.type = "unwrapped"
            /\ m.end + 2 <= Len(input)
            /\ input[m.end + 1] = 12290
            /\ input[m.end + 2] = 97

(* The patterns with global: true. *)
GlobalPatterns ==
    [type : Types, global : {TRUE}, sticky : BOOLEAN, capture : {"rawText"}]

(* C20: termination: after every '#' it examines the scanner is at a      *)
(* greater position; every successful exec or execMatch of a global       *)
(* pattern leaves lastIndex greater than it was; and so findAllHashtags,  *)
(* iterateHashtags and matchAll end after at most Len(input) matches,     *)
(* each of them non-empty and behind the one before.                      *)
C20_Termination ==
    /\ \A i \in 0..(Len(input) - 1) :
          LET st == scanStep(input, i)
          IN  st.done \/ st.i > indexOf(input, 35, i)
    /\ op = "init" =>
          \A o \in GlobalPatterns : \A li \in 0..Len(input) :
              LET e == exec(input, o, li)
                  m == execMatch(input, o, li)
              IN  /\ e.ret # null => e.lastIndex > li
                  /\ m.ret # null => m.lastIndex > li
    /\ op = "init" =>
          \A o \in GlobalPatterns : Len(matchAll(input, o, 0).ret) <= Len(input)
    /\ op \in {"findAllHashtags", "iterateHashtags"} =>
          /\ Len(ret) <= Len(input)
          /\ \A k \in 1..Len(ret) :
                /\ ret[k].start < ret[k].end
                /\ k > 1 => ret[k - 1].end <= ret[k].start

(* iterateHashtags came to its end on an input that opens with an         *)
(* unterminated '#<' and has a hashtag behind it.                         *)
C20_Witness ==
    /\ op = "iterateHashtags"
    /\ Len(input) >= 2
    /\ input[1] = 35
    /\ input[2] = 60
    /\ \A j \in 1..Len(input) : input[j] # 62
    /\ Len(ret) = 1


----------------------------------------------------------------------------
(* The doubling dialect: scanner and synthesizer in which a repeated      *)
(* punctuation character ends an unwrapped hashtag.                       *)

isAngleBracket(cu) == cu = LtSign \/ cu = GtSign

isPunctuation(cu) == cu \in {46, 44, 59, 58, 33, 63}

RECURSIVE nextUnescapedHashLoop(_, _)
nextUnescapedHashLoop(s, i) ==
    IF i = -1 THEN -1
    ELSE IF slashRun(s, i - 1) % 2 = 0 THEN i
    ELSE nextUnescapedHashLoop(s, indexOf(s, Hash, i + 1))

nextUnescapedHash(s, from) == nextUnescapedHashLoop(s, indexOf(s, Hash, from))

(* The backslashes that end at k and do not reach below contentStart. *)
RECURSIVE escBsRun(_, _, _)
escBsRun(s, k, contentStart) ==
    IF k >= contentStart /\ charCodeAt(s, k) = Backslash
    THEN 1 + escBsRun(s, k - 1, contentStart)
    ELSE 0

RECURSIVE parseWrappedLoop(_, _, _)
parseWrappedLoop(s, contentStart, from) ==
    LET at(j) ==
            IF j = -1 THEN null
            ELSE IF escBsRun(s, j - 1, contentStart) % 2 = 0
                 THEN IF j > contentStart
                      THEN [end |-> j + 1, content |-> slice(s, contentStart, j)]
                      ELSE null
            ELSE parseWrappedLoop(s, contentStart, j + 1)
    IN  at(indexOf(s, GtSign, from))

parseWrappedAt(s, index) ==
    IF index + 1 >= Len(s) \/ charCodeAt(s, index + 1) # LtSign THEN null
    ELSE parseWrappedLoop(s, index + 2, index + 2)

(* One pass of the loop of parseUnwrappedFrom at j < n: the next j and    *)
(* whether the loop is left.                                              *)
parseUnwrappedStep_noDoubling(s, j) ==
    LET n == Len(s)
        cu == charCodeAt(s, j)
        next == charCodeAt(s, j + 1)
    IN  IF cu = Backslash
        THEN IF j + 1 < n
             THEN IF isHighSurrogate(next) /\ j + 2 < n
                     /\ isLowSurrogate(charCodeAt(s, j + 2))
                  THEN [j |-> j + 3, done |-> FALSE]
                  ELSE [j |-> j + 2, done |-> FALSE]
             ELSE [j |-> j + 1, done |-> TRUE]
        ELSE IF isStrongTerminator(cu) \/ isAngleBracket(cu)
        THEN [j |-> j, done |-> TRUE]
        ELSE IF isPunctuation(cu)
        THEN IF j + 1 >= n THEN [j |-> j, done |-> TRUE]
             ELSE IF isStrongTerminator(next) \/ isPunctuation(next)
                     \/ isAngleBracket(next)
             THEN [j |-> j, done |-> TRUE]
             ELSE [j |-> j + 1, done |-> FALSE]
        ELSE IF isHighSurrogate(cu) /\ j + 1 < n /\ isLowSurrogate(next)
        THEN [j |-> j + 2, done |-> FALSE]
        ELSE [j |-> j + 1, done |-> FALSE]

parseUnwrappedStep(s, j) ==
    LET n == Len(s)
        cu == charCodeAt(s, j)
        next == charCodeAt(s, j + 1)
    IN  IF cu = Backslash
        THEN IF j + 1 < n
             THEN IF isHighSurrogate(next) /\ j + 2 < n
                     /\ isLowSurrogate(charCodeAt(s, j + 2))
                  THEN [j |-> j + 3, done |-> FALSE]
                  ELSE [j |-> j + 2, done |-> FALSE]
             ELSE [j |-> j + 1, done |-> TRUE]
        ELSE IF isStrongTerminator(cu) \/ isAngleBracket(cu)
        THEN [j |-> j, done |-> TRUE]
        ELSE IF isPunctuation(cu)
        THEN IF j + 1 >= n THEN [j |-> j, done |-> TRUE]
             ELSE IF next = cu THEN [j |-> j + 1, done |-> TRUE]
             ELSE IF isStrongTerminator(next) \/ isPunctuation(next)
                     \/ isAngleBracket(next)
             THEN [j |-> j, done |-> TRUE]
             ELSE [j |-> j + 1, done |-> FALSE]
        ELSE IF isHighSurrogate(cu) /\ j + 1 < n /\ isLowSurrogate(next)
        THEN [j |-> j + 2, done |-> FALSE]
        ELSE [j |-> j + 1, done |-> FALSE]

RECURSIVE parseUnwrappedLoop(_, _)
parseUnwrappedLoop(s, j) ==
    LET after(st) == IF st.done THEN st.j ELSE parseUnwrappedLoop(s, st.j)
    IN  IF j >= Len(s) THEN j ELSE after(parseUnwrappedStep(s, j))

parseUnwrappedFrom(s, start) ==
    LET result(j) ==
            IF j > start THEN [end |-> j, content |-> slice(s, start, j)]
            ELSE null
    IN  result(parseUnwrappedLoop(s, start))

(* The values j takes at the head of the loop of parseUnwrappedFrom. *)
RECURSIVE parseUnwrappedVisits(_, _)
parseUnwrappedVisits(s, j) ==
    LET after(st) == IF st.done THEN {} ELSE parseUnwrappedVisits(s, st.j)
    IN  IF j >= Len(s) THEN {} ELSE {j} \cup after(parseUnwrappedStep(s, j))

RECURSIVE unescapeContentFrom(_, _)
unescapeContentFrom(c, i) ==
    IF i >= Len(c) THEN <<>>
    ELSE IF c[i + 1] = Backslash
         THEN IF i + 1 < Len(c)
              THEN <<c[i + 2]>> \o unescapeContentFrom(c, i + 2)
              ELSE unescapeContentFrom(c, i + 1)
    ELSE <<c[i + 1]>> \o unescapeContentFrom(c, i + 1)

unescapeHashtagContent(c) == unescapeContentFrom(c, 0)

(* findFirstHashtag of the doubling dialect. *)
RECURSIVE doublingFindFirstLoop(_, _)
doublingFindFirstLoop(s, pos) ==
    LET wrapped(i, parsed) ==
            IF parsed # null
            THEN [type |-> "wrapped", tag |-> unescapeHashtagContent(parsed.content)]
            ELSE doublingFindFirstLoop(s, i + 2)
        unwrapped(i, parsed) ==
            IF parsed # null
            THEN [type |-> "unwrapped", tag |-> unescapeHashtagContent(parsed.content)]
            ELSE doublingFindFirstLoop(s, i + 1)
        at(i) ==
            IF i = -1 THEN null
            ELSE IF i + 1 < Len(s) /\ charCodeAt(s, i + 1) = LtSign
            THEN wrapped(i, parseWrappedAt(s, i))
            ELSE unwrapped(i, parseUnwrappedFrom(s, i + 1))
    IN  at(nextUnescapedHash(s, pos))

doublingFindFirstHashtag(s) == doublingFindFirstLoop(s, 0)

(* canBeUnwrapped of the doubling dialect. *)
RECURSIVE doublingCanBeUnwrappedFrom(_, _)
doublingCanBeUnwrappedFrom(c, i) ==
    IF i >= Len(c) THEN TRUE
    ELSE IF isStrongTerminator(c[i + 1]) \/ isAngleBracket(c[i + 1]) THEN FALSE
    ELSE IF isHighSurrogate(c[i + 1]) /\ i + 1 < Len(c)
            /\ isLowSurrogate(charCodeAt(c, i + 1))
    THEN doublingCanBeUnwrappedFrom(c, i + 2)
    ELSE doublingCanBeUnwrappedFrom(c, i + 1)

doublingCanBeUnwrapped(c) == doublingCanBeUnwrappedFrom(c, 0)

RECURSIVE safeFrom(_, _)
safeFrom(c, i) ==
    IF i >= Len(c) THEN <<>>
    ELSE IF c[i + 1] = Backslash \/ c[i + 1] = Hash
    THEN <<Backslash, c[i + 1]>> \o safeFrom(c, i + 1)
    ELSE IF isPunctuation(c[i + 1])
    THEN IF i + 1 < Len(c) /\ charCodeAt(c, i + 1) = c[i + 1]
         THEN <<c[i + 1], Backslash, c[i + 1]>> \o safeFrom(c, i + 2)
         ELSE <<c[i + 1]>> \o safeFrom(c, i + 1)
    ELSE IF isHighSurrogate(c[i + 1]) /\ i + 1 < Len(c)
            /\ isLowSurrogate(charCodeAt(c, i + 1))
    THEN slice(c, i, i + 2) \o safeFrom(c, i + 2)
    ELSE <<c[i + 1]>> \o safeFrom(c, i + 1)

RECURSIVE escFrom(_, _)
escFrom(c, i) ==
    IF i >= Len(c) THEN <<>>
    ELSE IF c[i + 1] = Backslash \/ c[i + 1] = GtSign
    THEN <<Backslash, c[i + 1]>> \o escFrom(c, i + 1)
    ELSE IF isHighSurrogate(c[i + 1]) /\ i + 1 < Len(c)
            /\ isLowSurrogate(charCodeAt(c, i + 1))
    THEN slice(c, i, i + 2) \o escFrom(c, i + 2)
    ELSE <<c[i + 1]>> \o escFrom(c, i + 1)

hashtagForContent(c) ==
    IF doublingCanBeUnwrapped(c) THEN <<Hash>> \o safeFrom(c, 0)
    ELSE <<Hash, LtSign>> \o escFrom(c, 0) \o <<GtSign>>

RECURSIVE findFirstUnwrappedLoop(_, _)
findFirstUnwrappedLoop(s, pos) ==
    LET unwrapped(i, parsed) ==
            IF parsed # null THEN [index |-> i, content |-> parsed.content]
            ELSE findFirstUnwrappedLoop(s, i + 1)
        at(i) ==
            IF i = -1 THEN null
            ELSE IF i + 1 < Len(s) /\ charCodeAt(s, i + 1) = LtSign
            THEN findFirstUnwrappedLoop(s, i + 2)
            ELSE unwrapped(i, parseUnwrappedFrom(s, i + 1))
    IN  at(nextUnescapedHash(s, pos))

findFirstUnwrapped(s) == findFirstUnwrappedLoop(s, 0)

(* unwrappedTagRegex.exec: the array [whole, content] and its index. *)
unwrappedTagRegexExec(s) ==
    LET result(m) ==
            IF m = null THEN null
            ELSE [groups |-> <<(<<Hash>> \o m.content), m.content>>,
                  index |-> m.index]
    IN  result(findFirstUnwrapped(s))

(* unwrappedTagRegex.exec(input) *)
UnwrappedTagRegexExec ==
    /\ ret' = unwrappedTagRegexExec(input)
    /\ op' = "unwrappedTagRegex.exec"
    /\ UNCHANGED <<input, text, opts, lastIndex, arg, yielded>>

(* findFirstHashtag(input) of the doubling dialect *)
DoublingFindFirstHashtag ==
    /\ ret' = doublingFindFirstHashtag(input)
    /\ op' = "doublingFindFirstHashtag"
    /\ UNCHANGED <<input, text, opts, lastIndex, arg, yielded>>

(* hashtagForContent(text); its result becomes the string scanned next. *)
HashtagForContent ==
    /\ op = "init"
    /\ input' = hashtagForContent(text)
    /\ ret' = input'
    /\ op' = "hashtagForContent"
    /\ UNCHANGED <<text, opts, lastIndex, arg, yielded>>

MaxDoublingLen == 5

(* '#', a letter, two punctuation characters, backslash, space and '<'. *)
DoublingAlphabet == {Hash, 97, 46, 33, Backslash, SP, LtSign}

(* The doubling scanner over one unwrapped candidate: '#', then every     *)
(* short string.                                                          *)
InitDoubling ==
    /\ input \in {<<Hash>> \o b : b \in Strings(DoublingAlphabet, MaxDoublingLen - 1)}
    /\ text = <<>>
    /\ opts = NoOpts
    /\ lastIndex = 0
    /\ op = "init"
    /\ arg = NoArg
    /\ ret = null
    /\ yielded = <<>>

NextDoubling ==
    \/ DoublingFindFirstHashtag
    \/ UnwrappedTagRegexExec

SpecDoubling == InitDoubling /\ [][NextDoubling]_vars


----------------------------------------------------------------------------
(* Properties of the doubling dialect *)

(* A character that neither ends nor escapes: not a backslash, a strong  *)
(* terminator, an angle bracket or punctuation.                           *)
DoublingRegular(c) ==
    /\ c # Backslash
    /\ ~(c <= 32 \/ (c >= 127 /\ c <= 159))
    /\ c \notin {LtSign, GtSign}
    /\ c \notin {46, 44, 59, 58, 33, 63}

(* The end of the content unwrappedTagRegex.exec returned. *)
ExecContentEnd == ret.index + 1 + Len(ret.groups[2])

(* C21: doubling: when unwrapped extraction reaches an unescaped          *)
(* punctuation character directly followed by the same character, the     *)
(* content ends after the first of the two, whatever follows; a           *)
(* backslash-escaped punctuation character is part of the content and is  *)
(* neither the first nor the second half of a doubling.                   *)
C21_Doubling ==
    (op = "unwrappedTagRegex.exec" /\ charCodeAt(input, 1) # LtSign) =>
        \A j \in parseUnwrappedVisits(input, 1) :
            /\ (isPunctuation(input[j + 1]) /\ charCodeAt(input, j + 1) = input[j + 1])
                   => /\ ret # null
                      /\ ret.index = 0
                      /\ ret.groups[2] = slice(input, 1, j + 1)
                      /\ ret.groups[1] = slice(input, 0, j + 1)
            /\ (input[j + 1] = Backslash /\ j + 1 < Len(input)
                    /\ isPunctuation(charCodeAt(input, j + 1)))
                   => /\ ret # null
                      /\ ret.index = 0
                      /\ ExecContentEnd >= j + 2
                      /\ (j + 3 < Len(input)
                              /\ input[j + 3] = input[j + 2]
                              /\ DoublingRegular(input[j + 4]))
                             => ExecContentEnd >= j + 4
            /\ (isPunctuation(input[j + 1]) /\ j + 2 < Len(input)
                    /\ input[j + 2] = Backslash /\ input[j + 3] = input[j + 1])
                   => /\ ret # null
                      /\ ret.index = 0
                      /\ ExecContentEnd >= j + 3

(* Three repetitions of one punctuation character were reached and the   *)
(* content ends after the first.                                          *)
C21_Witness ==
    /\ op = "unwrappedTagRegex.exec"
    /\ ret # null
    /\ \E j \in parseUnwrappedVisits(input, 1) :
           /\ j + 2 < Len(input)
           /\ isPunctuation(input[j + 1])
           /\ input[j + 2] = input[j + 1]
           /\ input[j + 3] = input[j + 1]
           /\ ExecContentEnd = j + 1


MaxContentLen == 3

(* Contents: a letter, two punctuation characters, backslash, '#',       *)
(* space, the angle brackets and the two halves of a surrogate pair.      *)
ContentAlphabet == {97, 46, 33, Backslash, Hash, SP, LtSign, GtSign, 55357, 56832}

(* Synthesis in the doubling dialect followed by a scan of the result. *)
InitDoublingSynth ==
    /\ text \in Strings(ContentAlphabet, MaxContentLen)
    /\ input = <<>>
    /\ opts = NoOpts
    /\ lastIndex = 0
    /\ op = "init"
    /\ arg = NoArg
    /\ ret = null
    /\ yielded = <<>>

NextDoublingSynth ==
    \/ HashtagForContent
    \/ op # "init" /\ DoublingFindFirstHashtag

SpecDoublingSynth == InitDoublingSynth /\ [][NextDoublingSynth]_vars

(* C22: round trip in the doubling dialect: for every non-empty content   *)
(* without a lone surrogate, findFirstHashtag(hashtagForContent(content)) *)
(* has the content as its tag.                                            *)
C22_DoublingRoundTrip ==
    (op = "doublingFindFirstHashtag" /\ Len(text) > 0 /\ ~HasLoneSurrogate(text))
        => (ret # null /\ ret.tag = text)


----------------------------------------------------------------------------
(* Further properties of the scanner *)

(* Position j (1-based) of raw holds a backslash that escapes the code   *)
(* unit after it.                                                         *)
EscapingBackslashAt(raw, j) ==
    /\ j < Len(raw)
    /\ raw[j] = 92
    /\ BackslashRun(raw, j - 1) % 2 = 0

(* C23: escaped line breaks of a wrapped hashtag are not normalized: for  *)
(* a CR or LF preceded by an escaping backslash the text has that         *)
(* character itself, and a space or tab that follows it is kept.          *)
C23_EscapedBreaksKept ==
    \A k \in 1..Len(FoundMatches) :
        LET m == FoundMatches[k]
        IN  m.type = "wrapped" =>
                \A j \in 1..Len(m.rawText) :
                    (EscapingBackslashAt(m.rawText, j) /\ m.rawText[j + 1] \in {13, 10})
                        => \E i \in 1..Len(m.text) :
                               /\ m.text[i] = m.rawText[j + 1]
                               /\ (j + 2 <= Len(m.rawText) /\ m.rawText[j + 2] \in {32, 9})
                                      => (i < Len(m.text) /\ m.text[i + 1] = m.rawText[j + 2])


(* The values pos takes at the head of the loop of extractWrappedTag. *)
RECURSIVE wrappedReadsLoop(_, _, _, _)
wrappedReadsLoop(s, startIndex, pos, slashParity) ==
    LET after(st) == IF st.ret THEN <<>>
                     ELSE wrappedReadsLoop(s, startIndex, st.pos, st.slashParity)
    IN  IF pos >= Len(s) THEN <<>>
        ELSE <<pos>> \o after(wrappedStep(s, startIndex, pos, slashParity))

extractWrappedReads(s, hashIndex) ==
    IF hashIndex + 1 >= Len(s) \/ charCodeAt(s, hashIndex + 1) # LtSign
    THEN <<>>
    ELSE wrappedReadsLoop(s, hashIndex + 2, hashIndex + 2, 0)

(* The positions the iteration of scanAllHashtags that starts at i makes  *)
(* extractWrappedTag read.                                                *)
scanStepWrappedReads(s, i) ==
    LET atHash(hashIndex) ==
            IF hashIndex < 0 THEN <<>>
            ELSE IF hasLoneSurrogate(s, hashIndex) THEN <<>>
            ELSE IF ~isUnescapedHash(s, hashIndex) THEN <<>>
            ELSE IF hashIndex + 1 < Len(s) /\ charCodeAt(s, hashIndex + 1) = LtSign
            THEN extractWrappedReads(s, hashIndex)
            ELSE <<>>
    IN  atHash(indexOf(s, Hash, i))

(* The positions extractWrappedTag reads over one scan, in order. *)
RECURSIVE scanWrappedReads(_, _)
scanWrappedReads(s, i) ==
    LET after(st) == IF st.done THEN <<>> ELSE scanWrappedReads(s, st.i)
    IN  IF i >= Len(s) THEN <<>>
        ELSE scanStepWrappedReads(s, i) \o after(scanStep(s, i))

(* The find functions over inputs put together from hashtag openers and   *)
(* escapes.                                                               *)
InitTokens ==
    /\ input \in PatInputs
    /\ text = <<>>
    /\ opts = NoOpts
    /\ lastIndex = 0
    /\ op = "init"
    /\ arg = NoArg
    /\ ret = null
    /\ yielded = <<>>

SpecTokens == InitTokens /\ [][Next]_vars

(* C24: over one complete scan the wrapped-content extractor reads each   *)
(* input position at most once.                                           *)
C24_WrappedSingleVisit ==
    op = "findAllHashtags" =>
        LET reads == scanWrappedReads(input, 0)
        IN  \A a, b \in 1..Len(reads) : reads[a] = reads[b] => a = b


(* A non-terminator of the grammar: not a strong terminator, '#',         *)
(* backslash or punctuation.                                              *)
DocNonTerminator(c) ==
    /\ ~DocStrongTerminator(c)
    /\ c # 35
    /\ c # 92
    /\ c \notin DocPunctuation

(* C25: in the rawText of an unwrapped match every unescaped punctuation  *)
(* character is directly followed, inside rawText, by a character that is *)
(* not '#', a backslash, a strong terminator or punctuation; so rawText   *)
(* does not end with an unescaped punctuation character.                  *)
C25_PunctuationGrammar ==
    \A m \in SeqRange(FoundMatches) :
        m.type = "unwrapped" =>
            \A j \in 1..Len(m.rawText) :
                (m.rawText[j] \in DocPunctuation
                 /\ BackslashRun(m.rawText, j - 1) % 2 = 0)
                    => /\ j < Len(m.rawText)
                       /\ DocNonTerminator(m.rawText[j + 1])


MaxBreakLen == 4

(* '#', backslash, the two line-break characters, a letter and '.'. *)
BreakAlphabet == {Hash, Backslash, CR, LF, 97, 46}

(* The find functions over short inputs with backslashes and line breaks. *)
InitBreaks ==
    /\ input \in Strings(BreakAlphabet, MaxBreakLen)
    /\ text = <<>>
    /\ opts = NoOpts
    /\ lastIndex = 0
    /\ op = "init"
    /\ arg = NoArg
    /\ ret = null
    /\ yielded = <<>>

SpecBreaks == InitBreaks /\ [][Next]_vars

(* C26: in an unwrapped hashtag a backslash directly followed by CR or LF *)
(* ends the hashtag in front of the backslash: no escaping backslash      *)
(* inside a match is followed by a line break, neither rawText nor text   *)
(* has a CR or LF, and no match starts at a '#' directly followed by      *)
(* such a backslash.                                                      *)
C26_NoEscapedLineBreaks ==
    \A m \in SeqRange(FoundMatches) :
        /\ ~(m.start + 2 < Len(input) /\ input[m.start + 2] = 92
                 /\ input[m.start + 3] \in {13, 10})
        /\ m.type = "unwrapped" =>
               /\ \A j \in 1..Len(m.rawText) : m.rawText[j] \notin {13, 10}
               /\ \A j \in 1..Len(m.text) : m.text[j] \notin {13, 10}
               /\ \A q \in (m.start + 1)..(m.end - 1) :
                      ~(/\ input[q + 1] = 92
                        /\ BackslashRun(input, q) % 2 = 0
                        /\ q + 1 < Len(input)
                        /\ input[q + 2] \in {13, 10})

(* An unwrapped match that ends in front of a backslash followed by CR. *)
C26_Witness ==
    /\ op = "findFirstHashtag"
    /\ ret # null
    /\ ret.type = "unwrapped"
    /\ ret.end + 1 < Len(input)
    /\ input[ret.end + 1] = 92
    /\ BackslashRun(input, ret.end) % 2 = 0
    /\ input[ret.end + 2] = 13


(* The input ends in a backslash that has nothing to escape and is not   *)
(* itself escaped.                                                        *)
FinalUnpairedBackslash ==
    /\ Len(input) > 0
    /\ input[Len(input)] = 92
    /\ BackslashRun(input, Len(input) - 1) % 2 = 0

(* C27: when the content of an unwrapped hashtag runs up to a single      *)
(* unpaired backslash that is the last code unit of the input, the match  *)
(* ends at the end of the input, rawText ends with that backslash and     *)
(* text is the unescaped content without it; '#' followed by only such a  *)
(* backslash starts no match.                                             *)
C27_TrailingBackslash ==
    FinalUnpairedBackslash =>
        \A m \in SeqRange(FoundMatches) :
            /\ m.start + 2 # Len(input)
            /\ (m.type = "unwrapped" /\ m.end >= Len(input) - 1) =>
                   /\ m.end = Len(input)
                   /\ m.rawText = SubSeq(input, m.start + 2, Len(input))
                   /\ m.rawText[Len(m.rawText)] = 92
                   /\ Len(m.rawText) >= 2
                   /\ m.text = WithoutEscapingBackslashes(
                                   SubSeq(input, m.start + 2, Len(input) - 1), 1)
                   /\ Len(m.text) >= 1

(* An unwrapped match whose rawText ends with the final backslash of the  *)
(* input and whose text is one code unit shorter.                         *)
C27_Witness ==
    /\ op = "findFirstHashtag"
    /\ FinalUnpairedBackslash
    /\ ret # null
    /\ ret.type = "unwrapped"
    /\ ret.end = Len(input)
    /\ ret.rawText[Len(ret.rawText)] = 92
    /\ Len(ret.text) = Len(ret.rawText) - 1


(* The text handed to createHashtag is valid, has no strong terminator    *)
(* and begins with '<'.                                                   *)
LeadingAngleText ==
    /\ Len(text) > 0
    /\ ~HasLoneSurrogate(text)
    /\ ~HasStrongTerminator(text)
    /\ text[1] = 60

(* C28: for valid text without strong terminators that begins with '<',   *)
(* createHashtag gives '#\<' followed by the rest of the text in which    *)
(* only backslashes and '#' are escaped, so later '<' and '>' stand       *)
(* unescaped; a scan of the result finds an unwrapped match and no        *)
(* wrapped one.                                                           *)
C28_LeadingAngle ==
    LeadingAngleText =>
        /\ op = "createHashtag" =>
               /\ Len(ret) >= 3
               /\ SubSeq(ret, 1, 3) = <<35, 92, 60>>
               /\ Len(ret) = Len(text) + 2 + CountIn(text, {92, 35})
               /\ WithoutEscapingBackslashes(Tail(ret), 1) = text
               /\ \A j \in 4..Len(ret) :
                      ret[j] \in {60, 62} => BackslashRun(ret, j - 1) % 2 = 0
        /\ op \in {"findFirstHashtag", "findAllHashtags"} =>
               /\ Len(FoundMatches) >= 1
               /\ \A m \in SeqRange(FoundMatches) : m.type = "unwrapped"
               /\ FoundMatches[1].start = 0

(* '<a>' was synthesized as '#\<a>' and scanned as one unwrapped match. *)
C28_Witness ==
    /\ op = "findAllHashtags"
    /\ text = <<60, 97, 62>>
    /\ input = <<35, 92, 60, 97, 62>>
    /\ Len(ret) = 1
    /\ ret[1].type = "unwrapped"
    /\ ret[1].text = text


MaxCloseLen == 4

(* Backslash, the angle brackets and a letter. *)
CloseAlphabet == {Backslash, GtSign, LtSign, 97}

(* The find functions over one wrapped opener followed by every short     *)
(* string of backslashes, angle brackets and letters.                     *)
InitClosing ==
    /\ input \in {<<Hash, LtSign>> \o c : c \in Strings(CloseAlphabet, MaxCloseLen)}
    /\ text = <<>>
    /\ opts = NoOpts
    /\ lastIndex = 0
    /\ op = "init"
    /\ arg = NoArg
    /\ ret = null
    /\ yielded = <<>>

SpecClosing == InitClosing /\ [][Next]_vars

(* C29: a wrapped match that starts at '#' p ends right after the first   *)
(* '>' at an index >= p + 2 that an even number of backslashes precedes;  *)
(* rawText is the input between p + 2 and that '>', so every '>' inside   *)
(* rawText has an odd number of backslashes before it.                    *)
C29_WrappedClosing ==
    \A m \in SeqRange(FoundMatches) :
        m.type = "wrapped" =>
            /\ input[m.start + 1] = 35
            /\ input[m.start + 2] = 60
            /\ m.end - 1 > m.start + 2
            /\ input[m.end] = 62
            /\ BackslashRun(input, m.end - 1) % 2 = 0
            /\ \A q \in (m.start + 2)..(m.end - 2) :
                   input[q + 1] = 62 => BackslashRun(input, q) % 2 = 1
            /\ m.rawText = SubSeq(input, m.start + 3, m.end - 1)
            /\ \A j \in 1..Len(m.rawText) :
                   m.rawText[j] = 62 => BackslashRun(m.rawText, j - 1) % 2 = 1

(* A wrapped match whose content has an unescaped '<' and an escaped '>'. *)
C29_Witness ==
    /\ op = "findFirstHashtag"
    /\ ret # null
    /\ ret.type = "wrapped"
    /\ \E j \in 1..Len(ret.rawText) :
           ret.rawText[j] = 60 /\ BackslashRun(ret.rawText, j - 1) % 2 = 0
    /\ \E j \in 1..Len(ret.rawText) : ret.rawText[j] = 62


(* The scanner examines the '#' at index p (no match covers it) and its   *)
(* wrapped attempt there fails.                                           *)
FailedWrappedAt(p) ==
    /\ UnescapedHashAt(input, p)
    /\ p + 1 < Len(input)
    /\ input[p + 2] = 60
    /\ extractWrappedTag(input, p) = null
    /\ \A m \in SeqRange(FoundMatches) : ~(m.start < p /\ p < m.end)

(* C30: after a wrapped attempt that fails at '#' p the scan goes on at   *)
(* p + 2: no match starts at p or p + 1, and the first valid hashtag at   *)
(* an index >= p + 2, inside or after the unterminated '#<' region, is    *)
(* reported.                                                              *)
C30_RecoveryAfterFailedWrapped ==
    op = "findAllHashtags" =>
        \A p \in 0..(Len(input) - 1) :
            FailedWrappedAt(p) =>
                /\ \A m \in SeqRange(FoundMatches) : m.start \notin {p, p + 1}
                /\ \A q \in (p + 2)..(Len(input) - 1) :
                       (/\ ValidHashtagAt(input, q)
                        /\ \A x \in (p + 2)..(q - 1) : ~ValidHashtagAt(input, x))
                           => \E m \in SeqRange(FoundMatches) : m.start = q

(* In '#<#a' the wrapped attempt at 0 fails and the hashtag at 2 is       *)
(* reported.                                                              *)
C30_Witness ==
    /\ op = "findAllHashtags"
    /\ input = <<35, 60, 35, 97>>
    /\ FailedWrappedAt(0)
    /\ Len(ret) = 1
    /\ ret[1].start = 2
    /\ ret[1].rawText = <<97>>


----------------------------------------------------------------------------
(* Properties of the match records and of the facade *)

(* The record m describes the part of the input it names. *)
ConsistentMatch(m) ==
    /\ 0 <= m.start
    /\ m.start < m.end
    /\ m.end <= Len(input)
    /\ input[m.start + 1] = 35
    /\ m.raw = SubSeq(input, m.start + 1, m.end)
    /\ IF m.type = "wrapped"
       THEN /\ Len(m.raw) >= 3
            /\ m.raw[2] = 60
            /\ m.raw[Len(m.raw)] = 62
            /\ m.rawText = SubSeq(m.raw, 3, Len(m.raw) - 1)
       ELSE /\ m.type = "unwrapped"
            /\ m.rawText = Tail(m.raw)

(* C31: every HashtagMatch has 0 <= start < end <= input.length, a '#' at *)
(* start, raw = input.slice(start, end) and rawText = raw without '#' or  *)
(* without '#<' and '>'; an exec result has index = start and, in global  *)
(* or sticky mode, lastIndex after the call is index + length of          *)
(* element 0.                                                             *)
C31_MatchRecord ==
    /\ (op = "execMatch" /\ ret # null) => ConsistentMatch(ret)
    /\ op = "matchAllMatches" => \A k \in 1..Len(ret) : ConsistentMatch(ret[k])
    /\ (op = "exec" /\ ret # null) =>
           /\ ret.index = execMatch(input, opts, arg.before).ret.start
           /\ ret.elems[1] = SubSeq(input, ret.index + 1, ret.index + Len(ret.elems[1]))
           /\ ret.input = input
           /\ (opts.global \/ opts.sticky) =>
                  lastIndex = ret.index + Len(ret.elems[1])

(* A global exec returned a wrapped hashtag that does not start at 0. *)
C31_Witness ==
    /\ op = "exec"
    /\ ret # null
    /\ opts.global
    /\ ret.index > 0
    /\ ret.elems[1][2] = 60
    /\ lastIndex = ret.index + Len(ret.elems[1])


(* The ways to obtain all matches of an input: findAllHashtags,           *)
(* iterateHashtags, matchAll, matchAllMatches and repeated exec.          *)
NextOrdered ==
    \/ \E t \in Types : FindAllHashtags(t, undefined)
    \/ \E t \in Types : IterateHashtags(t, undefined)
    \/ MatchAll
    \/ MatchAllMatches
    \/ Exec

SpecOrdered == InitPattern /\ [][NextOrdered]_vars

(* The spans [start, end) of the matches the last operation produced, in  *)
(* the order it produced them.                                            *)
ProducedSpans ==
    IF op \in {"findAllHashtags", "iterateHashtags", "matchAllMatches"}
    THEN [k \in 1..Len(ret) |-> <<ret[k].start, ret[k].end>>]
    ELSE IF op = "matchAll"
    THEN [k \in 1..Len(ret) |->
              <<ret[k].index, ret[k].index + Len(ret[k].elems[1])>>]
    ELSE IF op = "exec" /\ opts.global
    THEN [k \in 1..Len(yielded) |->
              <<yielded[k].index, yielded[k].index + Len(yielded[k].elems[1])>>]
    ELSE <<>>

(* C32: the matches of findAllHashtags, iterateHashtags, matchAll and     *)
(* repeated global exec have strictly increasing starts, each ends at or  *)
(* before the start of the next, and no input position is in two of them. *)
C32_OrderedDisjoint ==
    /\ \A k \in 1..(Len(ProducedSpans) - 1) :
           /\ ProducedSpans[k][1] < ProducedSpans[k + 1][1]
           /\ ProducedSpans[k][2] <= ProducedSpans[k + 1][1]
    /\ \A a, b \in 1..Len(ProducedSpans) :
           a # b => \A x \in ProducedSpans[a][1]..(ProducedSpans[a][2] - 1) :
                        ~(ProducedSpans[b][1] <= x /\ x < ProducedSpans[b][2])

(* findAllHashtags returned two or more matches, the first a wrapped      *)
(* hashtag with a '#' in its content, the second right after it.         *)
C32_Witness ==
    /\ op = "findAllHashtags"
    /\ Len(ret) >= 2
    /\ ret[1].type = "wrapped"
    /\ \E j \in 1..Len(ret[1].rawText) : ret[1].rawText[j] = 35
    /\ ret[1].end = ret[2].start


(* findAllHashtags with each type option. *)
NextFilter == \E t \in Types : FindAllHashtags(t, undefined)

SpecFilter == InitTokens /\ [][NextFilter]_vars

(* The matches of q whose type is t, in order. *)
OfType(q, t) == SelectSeq(q, LAMBDA m : m.type = t)

(* C33: findAllHashtags(input, {type: T}) is the subsequence of           *)
(* findAllHashtags(input) whose type is T; no '#' inside the content of a *)
(* wrapped match is reported by an unwrapped-only scan.                   *)
C33_TypeFilter ==
    (op = "findAllHashtags" /\ arg.type \in {"wrapped", "unwrapped"}) =>
        /\ ret = OfType(findAllHashtags(input, "any", undefined), arg.type)
        /\ arg.type = "unwrapped" =>
               \A m \in SeqRange(ret) :
                   \A w \in SeqRange(findAllHashtags(input, "any", undefined)) :
                       w.type = "wrapped" => ~(w.start < m.start /\ m.start < w.end)

(* An unwrapped-only scan of an input that has a wrapped hashtag with a   *)
(* '#' in its content and an unwrapped hashtag after it.                  *)
C33_Witness ==
    /\ op = "findAllHashtags"
    /\ arg.type = "unwrapped"
    /\ Len(ret) = 1
    /\ \E w \in SeqRange(findAllHashtags(input, "any", undefined)) :
           /\ w.type = "wrapped"
           /\ \E j \in 1..Len(w.rawText) : w.rawText[j] = 35
           /\ w.end <= ret[1].start


MaxFromLen == 4

(* '#', the angle brackets, a letter and the two halves of a surrogate    *)
(* pair.                                                                  *)
FromAlphabet == {Hash, LtSign, GtSign, 97, 55357, 56832}

(* The values of the fromIndex option: a negative number, every index of  *)
(* the input, its length and one value beyond it.                         *)
FromIndexes == {-3} \cup 0..(Len(input) + 1)

InitFrom ==
    /\ input \in Strings(FromAlphabet, MaxFromLen)
    /\ text = <<>>
    /\ opts = NoOpts
    /\ lastIndex = 0
    /\ op = "init"
    /\ arg = NoArg
    /\ ret = null
    /\ yielded = <<>>

NextFrom ==
    \/ \E k \in FromIndexes : FindFirstHashtag("any", k)
    \/ \E k \in FromIndexes : FindAllHashtags("any", k)
    \/ \E k \in FromIndexes : IterateHashtags("any", k)

SpecFrom == InitFrom /\ [][NextFrom]_vars

(* The matches the last find or iterate operation returned. *)
ScanResults ==
    IF op \in {"findAllHashtags", "iterateHashtags"} THEN ret
    ELSE IF op = "findFirstHashtag" /\ ret # null THEN <<ret>>
    ELSE <<>>

(* Index k is the second half of a surrogate pair of the input. *)
MidPair(k) ==
    /\ k >= 1
    /\ k < Len(input)
    /\ input[k] \in 55296..56319
    /\ input[k + 1] \in 56320..57343

(* C34: with fromIndex = k every match of findFirstHashtag,               *)
(* findAllHashtags and iterateHashtags starts at or after max(k, 0); a k  *)
(* beyond the input length gives null or no match; a k in the middle of   *)
(* a surrogate pair still gives the hashtags that start after it.         *)
C34_FromIndex ==
    (op \in {"findFirstHashtag", "findAllHashtags", "iterateHashtags"}
     /\ arg.fromIndex # undefined) =>
        /\ \A m \in SeqRange(ScanResults) :
               m.start >= arg.fromIndex /\ m.start >= 0
        /\ arg.fromIndex > Len(input) =>
               (ScanResults = <<>> /\ (op = "findFirstHashtag" => ret = null))
        /\ MidPair(arg.fromIndex) =>
               \A w \in SeqRange(findAllHashtags(input, "any", undefined)) :
                   w.start >= arg.fromIndex =>
                       IF op = "findFirstHashtag" THEN ret # null
                       ELSE w \in SeqRange(ScanResults)

(* findAllHashtags from the middle of a surrogate pair found the hashtag  *)
(* after the pair.                                                        *)
C34_Witness ==
    /\ op = "findAllHashtags"
    /\ arg.fromIndex # undefined
    /\ MidPair(arg.fromIndex)
    /\ Len(ret) = 1
    /\ ret[1].start = arg.fromIndex + 1


(* test without the restore of the saved lastIndex. *)
test_noRestore(s, o, li) ==
    LET result(r) == [ret |-> [ok |-> r.ret # null], lastIndex |-> r.lastIndex]
    IN  result(exec(s, o, li))

(* test(input): whether exec finds a match, and lastIndex afterwards. *)
test(s, o, li) ==
    LET result(r) == [ret |-> [ok |-> r.ret # null], lastIndex |-> li]
    IN  result(exec(s, o, li))

(* pattern.test(input) *)
Test ==
    LET returns(r) ==
            /\ ret' = r.ret
            /\ lastIndex' = r.lastIndex
    IN  /\ returns(test(input, opts, lastIndex))
        /\ op' = "test"
        /\ arg' = [before |-> lastIndex, runStart |-> lastIndex]
        /\ yielded' = <<>>
        /\ UNCHANGED <<input, text, opts>>

(* One pattern driven by test, exec and assignments to lastIndex. *)
NextTest ==
    \/ Test
    \/ Exec
    \/ \E v \in 0..(Len(input) + 1) : SetLastIndex(v)

SpecTest == InitPattern /\ [][NextTest]_vars

(* C35: test(input) is true exactly when exec(input) in the same state    *)
(* returns a match, and it leaves lastIndex as it found it, whether a     *)
(* match is found or not.                                                 *)
C35_TestKeepsCursor ==
    op = "test" =>
        /\ ret.ok = (exec(input, opts, arg.before).ret # null)
        /\ lastIndex = arg.before

(* test on a global pattern found a match from a cursor other than 0, and *)
(* exec from the same state would have moved the cursor.                  *)
C35_Witness ==
    /\ op = "test"
    /\ opts.global
    /\ ret.ok
    /\ arg.before > 0
    /\ lastIndex = arg.before
    /\ exec(input, opts, arg.before).lastIndex # arg.before


----------------------------------------------------------------------------
(* Several hashtagPattern instances *)

(* In this part lastIndex, opts and yielded are functions of the          *)
(* instance: each call of hashtagPattern makes a state object of its own. *)
Instances == {1, 2}

(* The calls made on the instances in one behaviour. *)
MaxCalls == 3

Calls == {"exec", "execMatch", "test", "reset", "matchAll"}

(* The value and the cursor after the call c on a pattern with options o  *)
(* and cursor li.                                                         *)
callOn(s, o, li, c) ==
    IF c = "exec" THEN exec(s, o, li)
    ELSE IF c = "execMatch" THEN execMatch(s, o, li)
    ELSE IF c = "test" THEN test(s, o, li)
    ELSE IF c = "matchAll" THEN matchAll(s, o, li)
    ELSE [ret |-> null, lastIndex |-> 0]

(* The cursors when all instances share one state object. *)
cursorAfter_shared(cursors, i, v) == [j \in DOMAIN cursors |-> v]

(* The cursors after instance i (0: the pattern a find helper makes for   *)
(* itself) stored v in its state.lastIndex.                               *)
cursorAfter(cursors, i, v) ==
    [j \in DOMAIN cursors |-> IF j = i THEN v ELSE cursors[j]]

(* The call c on instance i. *)
CallOn(i, c) ==
    LET returns(r) ==
            /\ ret' = r.ret
            /\ lastIndex' = cursorAfter(lastIndex, i, r.lastIndex)
            /\ yielded' = [yielded EXCEPT ![i] = Append(@, [call |-> c, ret |-> r.ret])]
    IN  /\ Len(yielded[1]) + Len(yielded[2]) < MaxCalls
        /\ returns(callOn(input, opts[i], lastIndex[i], c))
        /\ op' = "instance"
        /\ arg' = [instance |-> i, call |-> c]
        /\ UNCHANGED <<input, text, opts>>

(* findFirstHashtag(input, {type}) between the calls on the instances. *)
HelperBetween(type) ==
    LET returns(r) ==
            /\ ret' = r.ret
            /\ lastIndex' = cursorAfter(lastIndex, 0, r.lastIndex)
    IN  /\ op # "helper"
        /\ returns(execMatch(input, findPattern(type), 0))
        /\ op' = "helper"
        /\ arg' = [instance |-> 0, call |-> "findFirstHashtag"]
        /\ UNCHANGED <<input, text, opts, yielded>>

(* Inputs with one, two and three hashtags. *)
InstanceInputs ==
    {<<35, 60, 97, 62>>,
     <<35, 97, 35, 60, 97, 62>>,
     <<35, 97, 32, 35, 97, 35, 60, 97, 62>>}

InitInstances ==
    /\ input \in InstanceInputs
    /\ text = <<>>
    /\ opts \in {[i \in Instances |-> findPattern(IF i = 1 THEN "any" ELSE t)] :
                    t \in {"any", "unwrapped"}}
    /\ lastIndex = [i \in Instances |-> 0]
    /\ op = "init"
    /\ arg = [instance |-> 0, call |-> "init"]
    /\ ret = null
    /\ yielded = [i \in Instances |-> <<>>]

NextInstances ==
    \/ \E i \in Instances, c \in Calls : CallOn(i, c)
    \/ \E t \in Types : HelperBetween(t)

SpecInstances == InitInstances /\ [][NextInstances]_vars

(* The calls of log from the k-th on, made on a pattern of its own with   *)
(* options o and cursor li, return what log records and end with cursor   *)
(* final.                                                                 *)
RECURSIVE AloneGives(_, _, _, _, _, _)
AloneGives(s, o, li, log, k, final) ==
    LET step(r) == /\ r.ret = log[k].ret
                   /\ AloneGives(s, o, r.lastIndex, log, k + 1, final)
    IN  IF k > Len(log) THEN li = final
        ELSE step(callOn(s, o, li, log[k].call))

(* C36: lastIndex belongs to one instance: whatever is called on another  *)
(* instance or through the find helpers in between, each instance returns *)
(* what it returns when driven alone and has the cursor it then has.      *)
C36_CursorIsolation ==
    op \in {"instance", "helper"} =>
        \A i \in Instances :
            AloneGives(input, opts[i], 0, yielded[i], 1, lastIndex[i])

(* Both instances were called, and their cursors differ. *)
C36_Witness ==
    /\ op = "instance"
    /\ Len(yielded[1]) > 0
    /\ Len(yielded[2]) > 0
    /\ Len(yielded[1]) + Len(yielded[2]) = MaxCalls
    /\ lastIndex[1] > 0
    /\ lastIndex[2] > lastIndex[1]


(* The payload of a synthesized hashtag: what follows '#<' and precedes   *)
(* the final '>' in the wrapped form, what follows '#' in the unwrapped   *)
(* form (whose payload never begins with a bare '<').                     *)
Payload(out) ==
    IF Len(out) >= 2 /\ out[2] = LtSign
    THEN SubSeq(out, 3, Len(out) - 1)
    ELSE Tail(out)

(* C37: for every non-empty text without a lone surrogate, createHashtag  *)
(* gives a non-empty hashtag, and unescapeHashtagText of its payload is   *)
(* the text, in the unwrapped form and in the wrapped form.               *)
C37_EscapeInverse ==
    (op = "createHashtag" /\ Len(text) > 0 /\ ~HasLoneSurrogate(text)) =>
        /\ Len(ret) > 0
        /\ ret[1] = Hash
        /\ (ret[2] = LtSign) = ~canBeUnwrapped(text)
        /\ ret[2] = LtSign => ret[Len(ret)] = GtSign
        /\ unescapeHashtagText(Payload(ret)) = text

(* A backslash, a space and '>' were synthesized in the wrapped form. *)
C37_Witness ==
    /\ op = "createHashtag"
    /\ text = <<92, 32, 62>>
    /\ ret = <<35, 60, 92, 92, 32, 92, 62, 62>>


(* The text handed to createHashtag is valid and has no character of the  *)
(* punctuation table and no CR or LF.                                     *)
PunctuationFreeText ==
    /\ Len(text) > 0
    /\ ~HasLoneSurrogate(text)
    /\ \A k \in 1..Len(text) : text[k] \notin DocPunctuation \cup {LF, CR}

(* C38: for punctuation-free text, findAllHashtags of the synthesized     *)
(* string is one match that spans the whole string and whose text is the  *)
(* original text.                                                         *)
C38_WholeStringRoundTrip ==
    (op = "findAllHashtags" /\ PunctuationFreeText) =>
        /\ Len(ret) = 1
        /\ ret[1].start = 0
        /\ ret[1].end = Len(input)
        /\ ret[1].text = text

(* A text with a space, '>' and a backslash came back from the wrapped    *)
(* form.                                                                  *)
C38_Witness ==
    /\ op = "findAllHashtags"
    /\ text = <<32, 62, 92>>
    /\ input = <<35, 60, 32, 92, 62, 92, 92, 62>>
    /\ Len(ret) = 1
    /\ ret[1].type = "wrapped"
    /\ ret[1].text = text


----------------------------------------------------------------------------
(* unwrappedTagRegex on inputs with wrapped hashtags *)

MaxLegacyLen == 5

(* '#', the angle brackets, a letter, backslash and space. *)
LegacyAlphabet == {Hash, LtSign, GtSign, 97, Backslash, SP}

InitLegacy ==
    /\ input \in Strings(LegacyAlphabet, MaxLegacyLen)
    /\ text = <<>>
    /\ opts = NoOpts
    /\ lastIndex = 0
    /\ op = "init"
    /\ arg = NoArg
    /\ ret = null
    /\ yielded = <<>>

SpecLegacy == InitLegacy /\ [][NextDoubling]_vars

(* The left-to-right scan of the doubling dialect carried past every      *)
(* match: the loop of findFirstHashtag, resumed at the end of each        *)
(* hashtag it finds.                                                      *)
RECURSIVE DoublingScan(_, _)
DoublingScan(s, pos) ==
    LET wrapped(i, parsed) ==
            IF parsed # null
            THEN <<[type |-> "wrapped", start |-> i, end |-> parsed.end,
                    content |-> parsed.content]>> \o DoublingScan(s, parsed.end)
            ELSE DoublingScan(s, i + 2)
        unwrapped(i, parsed) ==
            IF parsed # null
            THEN <<[type |-> "unwrapped", start |-> i, end |-> parsed.end,
                    content |-> parsed.content]>> \o DoublingScan(s, parsed.end)
            ELSE DoublingScan(s, i + 1)
        at(i) ==
            IF i = -1 THEN <<>>
            ELSE IF i + 1 < Len(s) /\ charCodeAt(s, i + 1) = LtSign
            THEN wrapped(i, parseWrappedAt(s, i))
            ELSE unwrapped(i, parseUnwrappedFrom(s, i + 1))
    IN  at(nextUnescapedHash(s, pos))

(* The unwrapped hashtags of the scan, in order. *)
ScannedUnwrapped(s) ==
    LET isUnwrapped(m) == m.type = "unwrapped"
    IN  SelectSeq(DoublingScan(s, 0), isUnwrapped)

(* Position p lies inside a wrapped hashtag of the scan. *)
InsideWrapped(s, p) ==
    \E m \in SeqRange(DoublingScan(s, 0)) :
        m.type = "wrapped" /\ m.start <= p /\ p < m.end

(* C39: unwrappedTagRegex.exec never returns a match whose '#' lies       *)
(* inside a valid wrapped hashtag of the input; it returns the first      *)
(* unwrapped hashtag of the left-to-right scan, or null when the scan     *)
(* has none.                                                              *)
C39_LegacySkipsWrapped ==
    op = "unwrappedTagRegex.exec" =>
        IF ScannedUnwrapped(input) = <<>>
        THEN ret = null
        ELSE /\ ret # null
             /\ ~InsideWrapped(input, ret.index)
             /\ ret.index = ScannedUnwrapped(input)[1].start
             /\ ret.groups[2] = ScannedUnwrapped(input)[1].content


----------------------------------------------------------------------------
(* The iterator-based facade: createHashtagRegExp and its scanner *)

(* isCharEscaped: the number of backslashes before pos is odd. *)
RECURSIVE backslashesBefore(_, _)
backslashesBefore(s, k) ==
    IF k >= 0 /\ s[k + 1] = Backslash THEN 1 + backslashesBefore(s, k - 1) ELSE 0

isCharEscaped(s, pos) == backslashesBefore(s, pos - 1) % 2 = 1

(* The while loop of extractWrappedTag of the iterator-based variant. *)
RECURSIVE regExpExtractWrappedLoop(_, _, _)
regExpExtractWrappedLoop(s, startIndex, pos) ==
    LET at(closeBracketIndex) ==
            IF closeBracketIndex = -1 THEN null
            ELSE IF ~isCharEscaped(s, closeBracketIndex)
            THEN IF closeBracketIndex = startIndex THEN null
                 ELSE [end |-> closeBracketIndex + 1,
                       text |-> slice(s, startIndex, closeBracketIndex)]
            ELSE regExpExtractWrappedLoop(s, startIndex, closeBracketIndex + 1)
    IN  IF pos >= Len(s) THEN null
        ELSE at(indexOf(s, GtSign, pos))

regExpExtractWrappedTag(s, hashIndex) ==
    IF hashIndex + 1 >= Len(s) \/ charCodeAt(s, hashIndex + 1) # LtSign THEN null
    ELSE regExpExtractWrappedLoop(s, hashIndex + 2, hashIndex + 2)

(* The while loop of extractUnwrappedTag of the iterator-based variant:  *)
(* the position at which it ends.                                         *)
RECURSIVE regExpExtractUnwrappedLoop(_, _)
regExpExtractUnwrappedLoop(s, pos) ==
    LET n == Len(s)
        code == charCodeAt(s, pos)
        next == charCodeAt(s, pos + 1)
    IN  IF pos >= n THEN pos
        ELSE IF code = Backslash
        THEN IF pos + 1 < n
             THEN regExpExtractUnwrappedLoop(s,
                      pos + (IF isSurrogatePair(s, pos + 1) THEN 3 ELSE 2))
             ELSE pos + 1
        ELSE IF isStrongTerminator(code) \/ code = Hash THEN pos
        ELSE IF isPunctuation(code)
        THEN IF pos + 1 >= n THEN pos
             ELSE IF isStrongTerminator(next) \/ isPunctuation(next) THEN pos
             ELSE regExpExtractUnwrappedLoop(s, pos + 1)
        ELSE regExpExtractUnwrappedLoop(s,
                 pos + (IF isSurrogatePair(s, pos) THEN 2 ELSE 1))

regExpExtractUnwrappedTag(s, start) ==
    LET result(pos) ==
            IF pos > start THEN [end |-> pos, text |-> slice(s, start, pos)]
            ELSE null
    IN  result(regExpExtractUnwrappedLoop(s, start))

(* The generator scanAllHashtags resumed at i with the given             *)
(* slashParity: done, or the value it yields and the position at which    *)
(* it is suspended (where slashParity is 0).                              *)
RECURSIVE regExpScanNext(_, _, _)
regExpScanNext(s, i, slashParity) ==
    LET n == Len(s)
        code == charCodeAt(s, i)
        wrapped(parsed) ==
            IF parsed # null
            THEN [done |-> FALSE,
                  value |-> [type |-> "wrapped", start |-> i,
                             end |-> parsed.end, rawText |-> parsed.text],
                  i |-> parsed.end]
            ELSE regExpScanNext(s, i + 2, 0)
        unwrapped(parsed) ==
            IF parsed # null /\ Len(unescapeHashtagText(parsed.text)) > 0
            THEN [done |-> FALSE,
                  value |-> [type |-> "unwrapped", start |-> i,
                             end |-> parsed.end, rawText |-> parsed.text],
                  i |-> parsed.end]
            ELSE regExpScanNext(s, i + 1, 0)
    IN  IF i >= n THEN [done |-> TRUE]
        ELSE IF code = Backslash THEN regExpScanNext(s, i + 1, 1 - slashParity)
        ELSE IF code = Hash
        THEN IF slashParity = 0
             THEN IF i + 1 < n /\ charCodeAt(s, i + 1) = LtSign
                               /\ ~isCharEscaped(s, i + 1)
                  THEN wrapped(regExpExtractWrappedTag(s, i))
                  ELSE unwrapped(regExpExtractUnwrappedTag(s, i + 1))
             ELSE regExpScanNext(s, i + 1, 0)
        ELSE regExpScanNext(s, i + (IF isSurrogatePair(s, i) THEN 2 ELSE 1), 0)

(* The array exec returns for a scanned item. *)
regExpExecResult(item, filterType) ==
    LET fullMatch == IF item.type = "wrapped"
                     THEN <<Hash, LtSign>> \o item.rawText \o <<GtSign>>
                     ELSE <<Hash>> \o item.rawText
    IN  [groups |-> IF filterType = ""
                    THEN <<fullMatch, item.rawText, item.type>>
                    ELSE <<fullMatch, item.rawText>>,
         index |-> item.start]

(* The state object of createHashtagRegExp after construction and after   *)
(* reset(); the iterator is the generator's input and the position at     *)
(* which it is suspended, a string held in _currentInput is                *)
(* [string |-> s].                                                        *)
regExpInitialState == [lastIndex |-> 0, iterator |-> null, currentInput |-> null]

(* The first two statements of exec: a new input forgets the iterator,    *)
(* and a missing iterator is made.                                        *)
regExpEnter(st, s) ==
    LET fresh == IF st.currentInput # [string |-> s]
                 THEN [lastIndex |-> 0, iterator |-> null,
                       currentInput |-> [string |-> s]]
                 ELSE st
    IN  IF fresh.iterator = null
        THEN [fresh EXCEPT !.iterator = [input |-> s, i |-> 0]]
        ELSE fresh

(* The while (true) loop of exec: the returned value and the state. *)
RECURSIVE regExpExecLoop(_, _)
regExpExecLoop(st, filterType) ==
    LET after(result) ==
            IF result.done
            THEN [ret |-> null, state |-> regExpInitialState]
            ELSE IF filterType # "" /\ result.value.type # filterType
            THEN regExpExecLoop([st EXCEPT !.lastIndex = result.value.end,
                                           !.iterator.i = result.i],
                                filterType)
            ELSE [ret |-> regExpExecResult(result.value, filterType),
                  state |-> [st EXCEPT !.lastIndex = result.value.end,
                                       !.iterator.i = result.i]]
    IN  after(regExpScanNext(st.iterator.input, st.iterator.i, 0))

(* exec that keeps its iterator when the input changes. *)
regExpExec_keepsIterator(st, s, filterType) ==
    regExpExecLoop(IF st.iterator = null
                   THEN [st EXCEPT !.iterator = [input |-> s, i |-> 0],
                                   !.currentInput = [string |-> s]]
                   ELSE st,
                   filterType)

(* exec(input) of the object createHashtagRegExp(filterType) returns. *)
regExpExec(st, s, filterType) == regExpExecLoop(regExpEnter(st, s), filterType)

(* In this part the variable lastIndex holds the state object of the      *)
(* facade, opts its filterType ("" for hashtagRegExp), input the string   *)
(* of the last exec call, and yielded the matches exec returned since     *)
(* the facade last started over: after construction, reset(), a null      *)
(* result or a call with another string.                                  *)
RegExpExec(s) ==
    LET startsOver == op = "init" \/ ret = null \/ input # s
        returns(r) ==
            /\ ret' = r.ret
            /\ lastIndex' = r.state
            /\ yielded' = IF r.ret = null
                          THEN (IF startsOver THEN <<>> ELSE yielded)
                          ELSE (IF startsOver THEN <<r.ret>>
                                ELSE Append(yielded, r.ret))
    IN  /\ returns(regExpExec(lastIndex, s, opts.filterType))
        /\ input' = s
        /\ op' = "regExp.exec"
        /\ UNCHANGED <<text, opts, arg>>

(* reset() of the facade *)
RegExpReset ==
    /\ lastIndex' = regExpInitialState
    /\ ret' = null
    /\ yielded' = <<>>
    /\ op' = "regExp.reset"
    /\ UNCHANGED <<input, text, opts, arg>>

(* Assignment to lastIndex of the facade *)
RegExpSetLastIndex(value) ==
    /\ lastIndex' = [lastIndex EXCEPT !.lastIndex = value]
    /\ op' = "regExp.lastIndex"
    /\ UNCHANGED <<input, text, opts, arg, ret, yielded>>

InitRegExp ==
    /\ input = <<>>
    /\ text = <<>>
    /\ opts \in {[filterType |-> t] : t \in {"unwrapped", "wrapped", ""}}
    /\ lastIndex = regExpInitialState
    /\ op = "init"
    /\ arg = NoArg
    /\ ret = null
    /\ yielded = <<>>

NextRegExp ==
    \/ \E s \in PatInputs : RegExpExec(s)
    \/ RegExpReset
    \/ \E value \in {0, 1} : RegExpSetLastIndex(value)

SpecRegExp == InitRegExp /\ [][NextRegExp]_vars

(* The arrays a whole scan of s gives for the facade with filterType. *)
RECURSIVE RegExpMatchesFrom(_, _, _)
RegExpMatchesFrom(s, i, filterType) ==
    LET after(result) ==
            IF result.done THEN <<>>
            ELSE IF filterType # "" /\ result.value.type # filterType
            THEN RegExpMatchesFrom(s, result.i, filterType)
            ELSE <<regExpExecResult(result.value, filterType)>>
                     \o RegExpMatchesFrom(s, result.i, filterType)
    IN  after(regExpScanNext(s, i, 0))

(* C40: successive exec calls with one input return its matches of the    *)
(* facade's type one by one in position order, then null with lastIndex   *)
(* 0, and then start over; after reset() or with another input exec       *)
(* returns the first match of the input it is given.                      *)
C40_IteratorFacade ==
    op = "regExp.exec" =>
        LET expected == RegExpMatchesFrom(input, 0, opts.filterType)
            k == Len(yielded)
        IN  /\ k <= Len(expected)
            /\ yielded = SubSeq(expected, 1, k)
            /\ \A j \in 1..(k - 1) : yielded[j].index < yielded[j + 1].index
            /\ IF ret = null
               THEN k = Len(expected) /\ lastIndex.lastIndex = 0
               ELSE /\ k >= 1
                    /\ ret = expected[k]
                    /\ lastIndex.lastIndex = ret.index + Len(ret.groups[1])

(* exec returned null after the two wrapped matches of an input in which  *)
(* an unwrapped hashtag stands between them.                              *)
C40_Witness ==
    /\ op = "regExp.exec"
    /\ opts.filterType = "wrapped"
    /\ ret = null
    /\ Len(yielded) = 2
    /\ yielded[2].index > 4
    /\ lastIndex = regExpInitialState

============================================================================
